---- MODULE Spec2Model ----
(***************************************************************************)
(* Payment lifecycle and credential fulfilment of the UniTV subscription   *)
(* bot: the flat JSON files (payments, users, logins) and the handlers of  *)
(* bot.py / app.py / utils.py that read and write them.  Every              *)
(* read_json_file / write_json_file pair that is separated by a network    *)
(* call or by other file accesses is modelled as separate steps of a       *)
(* worker thread, so that the telebot worker pool, the background thread   *)
(* and the Flask request threads interleave as they do in the program.     *)
(***************************************************************************)
EXTENDS Integers, Sequences, FiniteSets, TLC

\* ---------------------------------------------------------------- bounds
MaxPayments == 2
MaxLogins == 2
MaxOps == 4
MaxDiscounts == 2
MaxCharges == 3
MaxCodes == 2

\* ------------------------------------------------------------ value sets
Users == {"u1", "u2"}
UserSeq == <<"u1", "u2">>
PLANS == {"30_days"}
Workers == {"w1", "w2"}
SeqWorker == "w1"
PaymentIds == 1..MaxPayments
Codes == 1..MaxCodes
Admins == {"a1", "a2"}
None == "None"
NoRef == <<"None", 0>>
IdKinds == {"int", "str"}

VARIABLES
    payments,       \* payments.json: payment_id -> record ("absent" = no key)
    users,          \* users.json: user_id -> record
    logins,         \* logins.json: plan_type -> list of credentials
    th,             \* per worker thread: position and local variables
    nextPaymentId,  \* uuid4 source: payment ids handed out so far
    nextLogin,      \* credentials handed to add_login so far
    expiredAge,     \* payments whose created_at + 10 minutes is in the past
    expiring,       \* users whose plan_expiration is 1 to 3 days ahead
    bot_config,     \* bot_config.json: sales flags and the coupon
    graceOver,      \* datetime.now() has reached the deadline of the warning
    alerted,        \* history: the low-stock alert was sent since a login was added
    chat,           \* per customer: the bot message with buttons they have open
    consumed,       \* history: credentials removed from inventory per payment
    calls,          \* history: outcome of each worker's assign/cancel call
    ops,            \* handler invocations so far, where a run is bounded
    auth_data,      \* auth.json: access code -> record (telegram_id None = no key)
    nextCode,       \* secrets.choice source: access codes handed out so far
    verified        \* history: times verify_access_code returned True, per code

vars == <<payments, users, logins, th, nextPaymentId, nextLogin, expiredAge,
          expiring, bot_config, graceOver, alerted, chat, consumed, calls, ops,
          auth_data, nextCode, verified>>

\* --------------------------------------------------------------- records
\* the callback data of a Confirm button: the plan, the price in centavos and
\* the coupon code it is built from; discount_applied records that the price
\* is the one apply_referral_discount returned
NoButton ==
    [plan_type |-> None, price |-> 0, coupon_code |-> None,
     discount_applied |-> FALSE]

NoPayment ==
    [user_id |-> None, plan_type |-> None, amount |-> 0, status |-> "absent",
     login_delivered |-> FALSE, mp_payment_id |-> NoRef,
     coupon_code |-> None, payer_name |-> FALSE, call |-> NoButton]

NewUser ==
    [login_info |-> 0, plan_type |-> None, is_first_buy |-> TRUE,
     referred_by |-> None, referral_discount_applied |-> FALSE,
     successful_referrals |-> 0]

\* a refusal of validate_coupon, with the message that tells why
Refused(msg) == [ok |-> FALSE, msg |-> msg, discount |-> 0, final_amount |-> 0]

\* a code that is not a key of auth_data['access_codes']
NoCode == [telegram_id |-> "None", expired |-> FALSE]

Idle ==
    [pc |-> "idle", op |-> None, pid |-> 0, user_id |-> None,
     plan_type |-> None, status |-> None, found |-> None, login |-> 0,
     coupon_code |-> None, config |-> <<>>, user |-> NewUser,
     data |-> None, payment_status |-> None, coupon_result |-> Refused(None),
     mp_id |-> 0, cancel_attempted |-> FALSE, code |-> 0,
     snap |-> <<>>, todo |-> <<>>]

\* the coupon of bot_config['coupons']: its limits are set by add_coupon
COUPON == "PROMO"

max_uses == 2

max_uses_per_user == 1

\* discount_value of the coupon, a percentage
discount_value == 10

\* read_json_file(BOT_CONFIG_FILE) before the first write, with the coupon
\* the admin created
NewConfig ==
    [sales_enabled |-> TRUE, warning_sent |-> FALSE,
     sales_suspended_time |-> None, pending_payment_notified |-> FALSE,
     uses |-> 0, usage_history |-> [u \in Users |-> 0],
     coupon_exists |-> TRUE, coupon_expired |-> FALSE,
     discount_type |-> "percentage", discount_value |-> discount_value,
     min_purchase |-> 0, applicable_plans |-> {"all"},
     seasonal_discounts |-> <<>>]

\* a chat in which no message with purchase buttons is open: screen is the
\* keyboard of the message, call the callback data of its Confirm button
NewChat == [screen |-> "start", call |-> NoButton, msg |-> None]

NoCall == [kind |-> None, pid |-> 0, result |-> None]

Exists(file, p) == file[p].status # "absent"

Quiescent == \A w \in Workers : th[w].pc = "idle"

\* a handler is entered while no other handler is running
Serial == Quiescent /\ UNCHANGED ops

\* a handler is entered on a free thread, within the bound of the run
Counted == ops < MaxOps /\ ops' = ops + 1

\* dict.update(data): the keys of data replace those of the record
Merge(rec, data) ==
    [k \in DOMAIN rec |-> IF k \in DOMAIN data THEN data[k] ELSE rec[k]]

\* list.remove(x): drops the first occurrence of x
RECURSIVE RemoveFirst(_, _)
RemoveFirst(s, x) ==
    IF s = <<>> THEN <<>>
    ELSE IF Head(s) = x THEN Tail(s)
    ELSE <<Head(s)>> \o RemoveFirst(Tail(s), x)

Range(s) == {s[i] : i \in DOMAIN s}

\* the ids of a set of payments in file (insertion) order
RECURSIVE InOrder(_, _)
InOrder(S, n) ==
    IF n > MaxPayments THEN <<>>
    ELSE (IF n \in S THEN <<n>> ELSE <<>>) \o InOrder(S, n + 1)

\* ------------------------------------------------------ config.PLANS
Tiers == {"30_days", "6_months", "1_year"}

\* prices in centavos
PLAN_TABLE ==
    [pl \in Tiers |->
        CASE pl = "30_days" ->
               [first_buy_price |-> 900, regular_price |-> 2000,
                first_buy_discount |-> TRUE]
          [] pl = "6_months" ->
               [first_buy_price |-> 4000, regular_price |-> 5000,
                first_buy_discount |-> TRUE]
          [] pl = "1_year" ->
               [first_buy_price |-> 11000, regular_price |-> 11000,
                first_buy_discount |-> FALSE]]

\* bot_config['referral_rewards']['referrer_discount'], in percent
referrer_discount == 10

\* ----------------------------------------- utils.calculate_plan_price
\* the discounts of bot_config['seasonal_discounts'], in the order of the
\* dictionary, whose expiration_date is still ahead
get_active_seasonal_discounts(config) ==
    SelectSeq(config.seasonal_discounts, LAMBDA d : ~d.expired)

\* the percentage of the first active discount that lists the plan or lists
\* no plan; <<>> when there is none
get_seasonal_discount_info(config, plan_type) ==
    LET applicable ==
          SelectSeq(get_active_seasonal_discounts(config),
                    LAMBDA d : d.applicable_plans = {} \/ plan_type \in d.applicable_plans)
    IN IF applicable = <<>> THEN <<>> ELSE <<Head(applicable).discount_percent>>

\* get_seasonal_discount_info taking the largest percentage
largest_seasonal_discount_info(config, plan_type) ==
    LET applicable ==
          SelectSeq(get_active_seasonal_discounts(config),
                    LAMBDA d : d.applicable_plans = {} \/ plan_type \in d.applicable_plans)
        percents == {applicable[i].discount_percent : i \in DOMAIN applicable}
    IN IF applicable = <<>> THEN <<>>
       ELSE <<CHOOSE x \in percents : \A y \in percents : y <= x>>

\* calculate_plan_price charging every customer the regular price
base_price_regular(user, plan_type) ==
    PLAN_TABLE[plan_type].regular_price

base_price(user, plan_type) ==
    IF user.is_first_buy /\ PLAN_TABLE[plan_type].first_buy_discount
    THEN PLAN_TABLE[plan_type].first_buy_price
    ELSE PLAN_TABLE[plan_type].regular_price

calculate_plan_price(user, plan_type, config) ==
    LET info == get_seasonal_discount_info(config, plan_type)
    IN IF info # <<>>
       THEN (base_price(user, plan_type) * (100 - info[1])) \div 100
       ELSE base_price(user, plan_type)

\* ---------------------------------------------- the callback data
\* the digits str(price) shows after the point
fraction(price) ==
    LET c == price % 100
    IN IF c % 10 = 0 THEN ToString(c \div 10)
       ELSE IF c < 10 THEN "0" \o ToString(c) ELSE ToString(c)

\* call.data.split("_") for the Confirm button of a message:
\* confirm_plan_{plan}_{price with its point replaced by _}[_{coupon}]
data_parts(call) ==
    <<"confirm", "plan", call.plan_type, ToString(call.price \div 100),
      fraction(call.price)>>
    \o (IF call.coupon_code = None THEN <<>> ELSE <<call.coupon_code>>)

\* ------------------------------------------------------------------ Init
Init ==
    /\ payments = [p \in PaymentIds |-> NoPayment]
    /\ users = [u \in Users |-> NewUser]
    /\ logins = [pl \in PLANS |-> <<>>]
    /\ th = [w \in Workers |-> Idle]
    /\ nextPaymentId = 1
    /\ nextLogin = 1
    /\ expiredAge = {}
    /\ expiring = {}
    /\ bot_config = NewConfig
    /\ graceOver = FALSE
    /\ alerted = FALSE
    /\ chat = [u \in Users |-> NewChat]
    /\ consumed = [p \in PaymentIds |-> 0]
    /\ calls = [w \in Workers |-> NoCall]
    /\ ops = 0
    /\ auth_data = [c \in Codes |-> NoCode]
    /\ nextCode = 1
    /\ verified = [c \in Codes |-> 0]

\* ------------------------------------------------- utils.create_payment
\* call records the button the payment was made from, which the file shows
\* only through amount
create_payment_data(u, pl, amount, coupon_code) ==
    [user_id |-> u, plan_type |-> pl, amount |-> amount, status |-> "pending",
     login_delivered |-> FALSE, mp_payment_id |-> NoRef,
     coupon_code |-> coupon_code, payer_name |-> FALSE, call |-> NoButton]

\* create_payment without the loop that cancels the pending payments
create_payment_keeping(file, pid, u, pl, amount, coupon_code) ==
    [p \in PaymentIds |->
        IF p = pid THEN create_payment_data(u, pl, amount, coupon_code)
        ELSE file[p]]

\* the ledger written by create_payment from the snapshot it read
create_payment(file, pid, u, pl, amount, coupon_code) ==
    [p \in PaymentIds |->
        IF p = pid THEN create_payment_data(u, pl, amount, coupon_code)
        ELSE IF file[p].user_id = u /\ file[p].status = "pending"
             THEN [file[p] EXCEPT !.status = "cancelled"]
             ELSE file[p]]

\* the Confirm button select_plan builds for a customer who gets no referral
\* discount
Confirm(u, pl) ==
    [plan_type |-> pl, price |-> calculate_plan_price(users[u], pl, bot_config),
     coupon_code |-> None, discount_applied |-> FALSE]

\* confirm_plan -> create_payment: the plan is data_parts[2], the price
\* float(data_parts[3]) and the coupon code data_parts[4], which is there
\* whenever the price was written with a point; then uuid4 and
\* read_json_file(PAYMENTS_FILE).  The message of the button is edited into
\* the payment instructions
confirm_plan(w, u, call) ==
    /\ th[w].pc = "idle"
    /\ nextPaymentId <= MaxPayments
    /\ th' = [th EXCEPT ![w] = [Idle EXCEPT !.pc = "create_payment_write",
                                            !.op = "confirm_plan",
                                            !.pid = nextPaymentId,
                                            !.user_id = u,
                                            !.plan_type = data_parts(call)[3],
                                            !.coupon_code =
                                               IF Len(data_parts(call)) > 4
                                               THEN data_parts(call)[5]
                                               ELSE None,
                                            !.data = call,
                                            !.snap = payments]]
    /\ nextPaymentId' = nextPaymentId + 1
    /\ chat' = [chat EXCEPT ![u] = [NewChat EXCEPT !.screen = "payment"]]
    /\ UNCHANGED <<payments, users, logins, nextLogin, expiredAge, consumed, calls, expiring, bot_config, graceOver, alerted, auth_data, nextCode, verified>>

\* create_payment: the gateway cancels are done, write_json_file(PAYMENTS_FILE)
create_payment_write(w) ==
    /\ th[w].pc = "create_payment_write"
    /\ payments' =
          [create_payment(th[w].snap, th[w].pid, th[w].user_id, th[w].plan_type,
                          (th[w].data.price \div 100) * 100, th[w].coupon_code)
             EXCEPT ![th[w].pid].call = th[w].data]
    /\ th' = [th EXCEPT ![w] = Idle]
    /\ UNCHANGED <<ops, users, logins, nextPaymentId, nextLogin, expiredAge, consumed, calls, expiring, bot_config, graceOver, alerted, chat, auth_data, nextCode, verified>>

\* ------------------------------------------------- utils.update_payment
\* the ledger written by update_payment from the snapshot it read; an id
\* missing from the snapshot means no write at all
update_payment(current, file, p, data) ==
    IF Exists(file, p) THEN [file EXCEPT ![p] = Merge(@, data)] ELSE current

\* str(mp_payment_id): the textual form of a gateway id of either JSON type
str(id) == <<"str", id[2]>>

\* ---------------------------------------------- continuation of a caller
\* where a worker goes when assign_login_to_user returns: the loops of
\* check_waiting_users_for_login and of the background tick take the next
\* waiting payment, the tick then goes on to its expiring-subscription stage
\* and add_login_command to its check of the sales flag
Continue(t) ==
    IF t.op \in {"add_login_command", "check_login_availability"} /\ t.todo # <<>>
    THEN [Idle EXCEPT !.pc = "assign_login_to_user", !.op = t.op,
                      !.pid = Head(t.todo)[1], !.user_id = Head(t.todo)[2],
                      !.plan_type = Head(t.todo)[3], !.todo = Tail(t.todo),
                      !.config = t.config]
    ELSE IF t.op = "check_login_availability"
    THEN [Idle EXCEPT !.pc = "expiring_subs", !.op = t.op, !.config = t.config]
    ELSE IF t.op = "add_login_command"
    THEN [Idle EXCEPT !.pc = "add_login_resume", !.op = t.op]
    ELSE IF t.op = "process_mercado_pago_webhook"
    THEN [Idle EXCEPT !.pc = "process_webhook_update", !.op = t.op,
                      !.pid = t.pid, !.login = t.login, !.status = t.status,
                      !.payment_status = t.payment_status]
    ELSE Idle

Returned(w, t, result) ==
    IF t.op = "assign_login_to_user"
    THEN [calls EXCEPT ![w] = [kind |-> "assign", pid |-> t.pid, result |-> result]]
    ELSE calls

\* ------------------------------------------- utils.assign_login_to_user
\* assign_login_to_user without the return on an empty list: the function
\* goes on with login None
assign_login_to_user_unchecked(w) ==
    /\ th[w].pc = "assign_login_to_user"
    /\ LET t == th[w]
           queue == logins[t.plan_type]
           login == IF queue = <<>> THEN 0 ELSE Head(queue)
       IN th' = [th EXCEPT ![w] =
                    [t EXCEPT !.pc = "save_user",
                              !.found = payments[t.pid].status,
                              !.login = login,
                              !.user = [users[t.user_id] EXCEPT
                                          !.login_info = login,
                                          !.plan_type = t.plan_type,
                                          !.is_first_buy = FALSE]]]
    /\ UNCHANGED <<ops, payments, users, logins, nextPaymentId, nextLogin, expiredAge, expiring, consumed, calls, bot_config, graceOver, alerted, chat, auth_data, nextCode, verified>>

\* get_user and get_available_login; False when the tier's list is empty.
\* found records the status the payment has in the ledger at this moment, a
\* value the function itself never reads
assign_login_to_user(w) ==
    /\ th[w].pc = "assign_login_to_user"
    /\ LET t == th[w]
           queue == logins[t.plan_type]
       IN IF queue = <<>>
          THEN /\ th' = [th EXCEPT ![w] = Continue(t)]
               /\ calls' = Returned(w, t, "OutOfStock")
          ELSE /\ th' = [th EXCEPT ![w] =
                          [t EXCEPT !.pc = "save_user",
                                    !.found = payments[t.pid].status,
                                    !.login = Head(queue),
                                    !.user = [users[t.user_id] EXCEPT
                                                !.login_info = Head(queue),
                                                !.plan_type = t.plan_type,
                                                !.is_first_buy = FALSE]]]
               /\ calls' = calls
    /\ UNCHANGED <<ops, payments, users, logins, nextPaymentId, nextLogin, expiredAge, consumed, expiring, bot_config, graceOver, alerted, chat, auth_data, nextCode, verified>>

\* save_user(user_id, user): the record read at entry is written back, with
\* plan_expiration = now + duration_days
assign_save_user(w) ==
    /\ th[w].pc = "save_user"
    /\ users' = [users EXCEPT ![th[w].user_id] = th[w].user]
    /\ expiring' = expiring \ {th[w].user_id}
    /\ th' = [th EXCEPT ![w].pc = "assign_update_payment"]
    /\ UNCHANGED <<ops, payments, logins, nextPaymentId, nextLogin, expiredAge, consumed, calls, bot_config, graceOver, alerted, chat, auth_data, nextCode, verified>>

\* update_payment(payment_id, {...}): read_json_file(PAYMENTS_FILE)
assign_update_payment(w) ==
    /\ th[w].pc = "assign_update_payment"
    /\ th' = [th EXCEPT ![w].pc = "assign_update_payment_write", ![w].snap = payments]
    /\ UNCHANGED <<ops, payments, users, logins, nextPaymentId, nextLogin, expiredAge, consumed, calls, expiring, bot_config, graceOver, alerted, chat, auth_data, nextCode, verified>>

\* update_payment: status completed, login_delivered True
assign_update_payment_write(w) ==
    /\ th[w].pc = "assign_update_payment_write"
    /\ payments' = update_payment(payments, th[w].snap, th[w].pid,
                        [status |-> "completed", login_delivered |-> TRUE])
    /\ th' = [th EXCEPT ![w].pc = "remove_login", ![w].snap = <<>>]
    /\ UNCHANGED <<ops, users, logins, nextPaymentId, nextLogin, expiredAge, consumed, calls, expiring, bot_config, graceOver, alerted, chat, auth_data, nextCode, verified>>

\* utils.remove_login: removes the credential when it is still listed
remove_login(file, plan_type, login_data) ==
    IF login_data \in Range(file[plan_type])
    THEN [file EXCEPT ![plan_type] = RemoveFirst(@, login_data)]
    ELSE file

\* assign_login_to_user has returned the login: approve_payment, the webhook
\* and check_waiting_users_for_login then call use_coupon when the payment
\* carries a coupon code, which writes only when the code is a key of
\* bot_config['coupons']
Assigned(t) ==
    IF /\ t.op \in {"approve_payment", "mercadopago_webhook", "add_login_command"}
       /\ payments[t.pid].coupon_code # None
       /\ payments[t.pid].coupon_code = COUPON
    THEN [t EXCEPT !.pc = "use_coupon", !.coupon_code = payments[t.pid].coupon_code]
    ELSE Continue(t)

\* remove_login(plan_type, login); then process_successful_referral when the
\* user record read at entry has a referrer
assign_remove_login(w) ==
    /\ th[w].pc = "remove_login"
    /\ LET t == th[w] IN
       /\ logins' = remove_login(logins, t.plan_type, t.login)
       /\ consumed' = IF logins' # logins /\ t.pid \in PaymentIds
                      THEN [consumed EXCEPT ![t.pid] = @ + 1] ELSE consumed
       /\ th' = [th EXCEPT ![w] =
                   IF t.user.referred_by # None
                   THEN [t EXCEPT !.pc = "process_successful_referral"]
                   ELSE Assigned(t)]
       /\ calls' = Returned(w, t, "Success")
    /\ UNCHANGED <<ops, payments, users, nextPaymentId, nextLogin, expiredAge, expiring, bot_config, graceOver, alerted, chat, auth_data, nextCode, verified>>

\* ------------------------------------------------------ bot.payment_done
payment_done(w, p) ==
    /\ th[w].pc = "idle"
    /\ Exists(payments, p)
    /\ th' = [th EXCEPT ![w] = [Idle EXCEPT !.pc = "payment_done_write",
                                            !.op = "payment_done",
                                            !.pid = p, !.snap = payments]]
    /\ UNCHANGED <<payments, users, logins, nextPaymentId, nextLogin, expiredAge, consumed, calls, expiring, bot_config, graceOver, alerted, chat, auth_data, nextCode, verified>>

payment_done_write(w) ==
    /\ th[w].pc = "payment_done_write"
    /\ payments' = update_payment(payments, th[w].snap, th[w].pid,
                        [status |-> "pending_approval"])
    /\ th' = [th EXCEPT ![w] = Idle]
    /\ UNCHANGED <<ops, users, logins, nextPaymentId, nextLogin, expiredAge, consumed, calls, expiring, bot_config, graceOver, alerted, chat, auth_data, nextCode, verified>>

\* ----------------------- bot.cancel_payment_callback -> utils.cancel_payment
cancel_payment(w, p) ==
    /\ th[w].pc = "idle"
    /\ Exists(payments, p)
    /\ th' = [th EXCEPT ![w] = [Idle EXCEPT !.pc = "cancel_payment_write",
                                            !.op = "cancel_payment",
                                            !.pid = p, !.snap = payments]]
    /\ UNCHANGED <<payments, users, logins, nextPaymentId, nextLogin, expiredAge, consumed, calls, expiring, bot_config, graceOver, alerted, chat, auth_data, nextCode, verified>>

\* marked cancelled whatever the gateway answered, whatever the status was
cancel_payment_write(w) ==
    /\ th[w].pc = "cancel_payment_write"
    /\ payments' = [th[w].snap EXCEPT ![th[w].pid].status = "cancelled"]
    /\ calls' = IF th[w].op = "cancel_payment_callback"
                THEN [calls EXCEPT ![w] = [kind |-> "cancel", pid |-> th[w].pid,
                                           result |-> "Success"]]
                ELSE calls
    /\ th' = [th EXCEPT ![w] = Idle]
    /\ UNCHANGED <<ops, users, logins, nextPaymentId, nextLogin, expiredAge, consumed, expiring, bot_config, graceOver, alerted, chat, auth_data, nextCode, verified>>

\* ---------------------------------------------------- bot.approve_payment
approve_payment(w, p) ==
    /\ th[w].pc = "idle"
    /\ Exists(payments, p)
    /\ th' = [th EXCEPT ![w] = [Idle EXCEPT !.pc = "approve_payment_write",
                                            !.op = "approve_payment",
                                            !.pid = p,
                                            !.user_id = payments[p].user_id,
                                            !.plan_type = payments[p].plan_type,
                                            !.snap = payments]]
    /\ UNCHANGED <<payments, users, logins, nextPaymentId, nextLogin, expiredAge, consumed, calls, expiring, bot_config, graceOver, alerted, chat, auth_data, nextCode, verified>>

\* update_payment: status approved; then get_available_login / assign
approve_payment_write(w) ==
    /\ th[w].pc = "approve_payment_write"
    /\ payments' = update_payment(payments, th[w].snap, th[w].pid,
                        [status |-> "approved"])
    /\ th' = [th EXCEPT ![w].pc = "assign_login_to_user", ![w].snap = <<>>]
    /\ UNCHANGED <<ops, users, logins, nextPaymentId, nextLogin, expiredAge, consumed, calls, expiring, bot_config, graceOver, alerted, chat, auth_data, nextCode, verified>>

\* ----------------------------------------------------- bot.reject_payment
reject_payment(w, p) ==
    /\ th[w].pc = "idle"
    /\ Exists(payments, p)
    /\ th' = [th EXCEPT ![w] = [Idle EXCEPT !.pc = "reject_payment_write",
                                            !.op = "reject_payment",
                                            !.pid = p, !.snap = payments]]
    /\ UNCHANGED <<payments, users, logins, nextPaymentId, nextLogin, expiredAge, consumed, calls, expiring, bot_config, graceOver, alerted, chat, auth_data, nextCode, verified>>

reject_payment_write(w) ==
    /\ th[w].pc = "reject_payment_write"
    /\ payments' = update_payment(payments, th[w].snap, th[w].pid,
                        [status |-> "rejected"])
    /\ th' = [th EXCEPT ![w] = Idle]
    /\ UNCHANGED <<ops, users, logins, nextPaymentId, nextLogin, expiredAge, consumed, calls, expiring, bot_config, graceOver, alerted, chat, auth_data, nextCode, verified>>

\* --------------------------- app.approve_payment / app.reject_payment
\* the dashboard routes: read the ledger, set the status, write it back
app_approve_payment(p) ==
    /\ Exists(payments, p)
    /\ payments' = [payments EXCEPT ![p].status = "approved"]
    /\ UNCHANGED <<users, logins, th, nextPaymentId, nextLogin, expiredAge, consumed, calls, expiring, bot_config, graceOver, alerted, chat, auth_data, nextCode, verified>>

app_reject_payment(p) ==
    /\ Exists(payments, p)
    /\ payments' = [payments EXCEPT ![p].status = "rejected"]
    /\ UNCHANGED <<users, logins, th, nextPaymentId, nextLogin, expiredAge, consumed, calls, expiring, bot_config, graceOver, alerted, chat, auth_data, nextCode, verified>>

\* ----------------------------------------- bot.pay_with_pix_mercado_pago
\* first charge of a payment: the gateway answers 201 with an id whose JSON
\* type is the gateway's choice; update_payment stores it as received
pay_with_pix_mercado_pago(w, p, kind) ==
    /\ th[w].pc = "idle"
    /\ Exists(payments, p)
    /\ payments[p].mp_payment_id = NoRef
    /\ th' = [th EXCEPT ![w] = [Idle EXCEPT !.pc = "pay_with_pix_write",
                                            !.op = "pay_with_pix_mercado_pago",
                                            !.pid = p, !.login = 0,
                                            !.plan_type = kind, !.mp_id = p,
                                            !.snap = payments]]
    /\ UNCHANGED <<payments, users, logins, nextPaymentId, nextLogin, expiredAge, consumed, calls, expiring, bot_config, graceOver, alerted, chat, auth_data, nextCode, verified>>

\* the values of payment_data['status'] the gateway answers for a PIX charge
GatewayStatuses == {"pending", "approved", "rejected", "cancelled"}

\* the payment already has a charge: mp_status is the status the charge has
\* at the gateway and status_code the answer to the request for it. A pending
\* charge is shown again; a charge in another status is cancelled and a new
\* charge is made; an answer that is not 200 goes straight to the new charge.
\* The gateway numbers the new charge after the ones the payment had.
pay_with_pix_existing(w, p, kind, mp_status, status_code) ==
    /\ th[w].pc = "idle"
    /\ Exists(payments, p)
    /\ payments[p].mp_payment_id # NoRef
    /\ payments[p].mp_payment_id[2] + MaxPayments <= MaxCharges * MaxPayments
    /\ IF status_code = 200 /\ mp_status = "pending"
       THEN /\ calls' = [calls EXCEPT ![w] = [kind |-> "pay_pix_mp", pid |-> p,
                                              result |-> "shown again"]]
            /\ UNCHANGED th
       ELSE /\ th' = [th EXCEPT ![w] =
                        [Idle EXCEPT !.pc = "pay_with_pix_write",
                                     !.op = "pay_with_pix_mercado_pago",
                                     !.pid = p, !.plan_type = kind,
                                     !.mp_id = payments[p].mp_payment_id[2] + MaxPayments,
                                     !.payment_status = mp_status,
                                     !.cancel_attempted = (status_code = 200),
                                     !.snap = payments]]
            /\ UNCHANGED calls
    /\ UNCHANGED <<payments, users, logins, nextPaymentId, nextLogin, expiredAge, consumed, expiring, bot_config, graceOver, alerted, chat, auth_data, nextCode, verified>>

pay_with_pix_write(w) ==
    /\ th[w].pc = "pay_with_pix_write"
    /\ payments' = update_payment(payments, th[w].snap, th[w].pid,
                        [mp_payment_id |-> <<th[w].plan_type, th[w].mp_id>>])
    /\ th' = [th EXCEPT ![w] = Idle]
    /\ UNCHANGED <<ops, users, logins, nextPaymentId, nextLogin, expiredAge, consumed, calls, expiring, bot_config, graceOver, alerted, chat, auth_data, nextCode, verified>>

\* ------------------------------------------------ app.mercadopago_webhook
\* the first payment of the ledger whose stored id equals str(data.id)
our_payment_id(file, id) ==
    LET matches == {p \in PaymentIds : Exists(file, p) /\ file[p].mp_payment_id = str(id)}
    IN IF matches = {} THEN 0 ELSE CHOOSE p \in matches : \A q \in matches : p <= q

\* the outcomes of requests.get: a status with code 200, or another code
GetAnswers == GatewayStatuses \cup {"error"}

\* the handler deciding by the status of the payload instead of the answer
mercadopago_webhook_trusting(w, id, embedded, payment_status) ==
    /\ th[w].pc = "idle"
    /\ LET p == our_payment_id(payments, id) IN
       th' = IF embedded = "approved" /\ p # 0
             THEN [th EXCEPT ![w] = [Idle EXCEPT !.pc = "mercadopago_webhook_write",
                                                 !.op = "mercadopago_webhook",
                                                 !.pid = p,
                                                 !.user_id = payments[p].user_id,
                                                 !.plan_type = payments[p].plan_type,
                                                 !.status = payments[p].status,
                                                 !.data = embedded,
                                                 !.payment_status = payment_status,
                                                 !.snap = payments]]
             ELSE th
    /\ UNCHANGED <<payments, users, logins, nextPaymentId, nextLogin, expiredAge, consumed, calls, expiring, bot_config, graceOver, alerted, chat, auth_data, nextCode, verified>>

\* a payment.updated event for data.id = id whose payload says embedded, and
\* whose GET answers payment_status; up to the read of the ledger the handler
\* touches no file, and it returns there unless the answer is approved and a
\* payment of the ledger carries the id
mercadopago_webhook(w, id, embedded, payment_status) ==
    /\ th[w].pc = "idle"
    /\ LET p == our_payment_id(payments, id) IN
       th' = IF payment_status = "approved" /\ p # 0
             THEN [th EXCEPT ![w] = [Idle EXCEPT !.pc = "mercadopago_webhook_write",
                                                 !.op = "mercadopago_webhook",
                                                 !.pid = p,
                                                 !.user_id = payments[p].user_id,
                                                 !.plan_type = payments[p].plan_type,
                                                 !.status = payments[p].status,
                                                 !.data = embedded,
                                                 !.payment_status = payment_status,
                                                 !.snap = payments]]
             ELSE th
    /\ UNCHANGED <<payments, users, logins, nextPaymentId, nextLogin, expiredAge, consumed, calls, expiring, bot_config, graceOver, alerted, chat, auth_data, nextCode, verified>>

mercadopago_webhook_write(w) ==
    /\ th[w].pc = "mercadopago_webhook_write"
    /\ payments' = update_payment(payments, th[w].snap, th[w].pid,
                        [status |-> "approved"])
    /\ th' = [th EXCEPT ![w].pc = "assign_login_to_user", ![w].snap = <<>>]
    /\ UNCHANGED <<ops, users, logins, nextPaymentId, nextLogin, expiredAge, consumed, calls, expiring, bot_config, graceOver, alerted, chat, auth_data, nextCode, verified>>

\* ------------------- mercado_pago_service.process_mercado_pago_webhook
\* check_payment_status: the internal status for the status of the GET answer
check_payment_status(payment_status) ==
    IF payment_status = "approved" THEN "completed"
    ELSE IF payment_status = "pending" THEN "pending"
    ELSE "rejected"

\* a notification for data.id = id whose GET answers payment_status: the
\* function returns when the GET fails or no payment carries the id;
\* completed goes to assign_login_to_user, rejected to update_payment
process_mercado_pago_webhook(w, id, payment_status) ==
    /\ th[w].pc = "idle"
    /\ LET p == our_payment_id(payments, id)
           status == check_payment_status(payment_status)
       IN th' = IF payment_status = "error" \/ p = 0 THEN th
                ELSE IF status = "completed" /\ payments[p].status # "completed"
                THEN [th EXCEPT ![w] =
                        [Idle EXCEPT !.pc = "assign_login_to_user",
                                     !.op = "process_mercado_pago_webhook",
                                     !.pid = p,
                                     !.user_id = payments[p].user_id,
                                     !.plan_type = payments[p].plan_type,
                                     !.status = payments[p].status,
                                     !.payment_status = payment_status]]
                ELSE IF status = "rejected" /\ payments[p].status # "rejected"
                THEN [th EXCEPT ![w] =
                        [Idle EXCEPT !.pc = "process_webhook_write",
                                     !.op = "process_mercado_pago_webhook",
                                     !.pid = p,
                                     !.status = payments[p].status,
                                     !.payment_status = payment_status,
                                     !.snap = payments]]
                ELSE th
    /\ UNCHANGED <<payments, users, logins, nextPaymentId, nextLogin, expiredAge, consumed, calls, expiring, bot_config, graceOver, alerted, chat, auth_data, nextCode, verified>>

\* update_payment after assign_login_to_user has returned:
\* read_json_file(PAYMENTS_FILE)
process_webhook_update(w) ==
    /\ th[w].pc = "process_webhook_update"
    /\ th' = [th EXCEPT ![w].pc = "process_webhook_write", ![w].snap = payments]
    /\ UNCHANGED <<ops, payments, users, logins, nextPaymentId, nextLogin, expiredAge, consumed, calls, expiring, bot_config, graceOver, alerted, chat, auth_data, nextCode, verified>>

\* update_payment: rejected, or completed when assign_login_to_user returned
\* a login and waiting_login when it returned False
process_webhook_write(w) ==
    /\ th[w].pc = "process_webhook_write"
    /\ LET status == IF check_payment_status(th[w].payment_status) = "rejected"
                     THEN "rejected"
                     ELSE IF th[w].login # 0 THEN "completed"
                     ELSE "waiting_login"
       IN payments' = update_payment(payments, th[w].snap, th[w].pid,
                                     [status |-> status])
    /\ th' = [th EXCEPT ![w] = Idle]
    /\ UNCHANGED <<ops, users, logins, nextPaymentId, nextLogin, expiredAge, consumed, calls, expiring, bot_config, graceOver, alerted, chat, auth_data, nextCode, verified>>

\* ------------------------------------------------------- utils.add_login
add_login(file, plan_type, login_data) ==
    [file EXCEPT ![plan_type] = Append(@, login_data)]

\* get_users_waiting_for_login / check_waiting_users_for_login: the
\* approved, undelivered payments of the ledger, in file order
waiting(file, plans) ==
    LET S == {p \in PaymentIds : /\ file[p].status = "approved"
                                 /\ ~file[p].login_delivered
                                 /\ file[p].plan_type \in plans}
        ids == InOrder(S, 1)
    IN [i \in DOMAIN ids |-> <<ids[i], file[ids[i]].user_id, file[ids[i]].plan_type>>]

\* app.add_login_route: add_login only
add_login_route(pl) ==
    /\ nextLogin <= MaxLogins
    /\ logins' = add_login(logins, pl, nextLogin)
    /\ nextLogin' = nextLogin + 1
    /\ alerted' = FALSE
    /\ UNCHANGED <<payments, users, th, nextPaymentId, expiredAge, consumed, calls, expiring, bot_config, graceOver, chat, auth_data, nextCode, verified>>

\* bot.add_login_command: add_login, then check_waiting_users_for_login reads
\* the ledger
add_login_command(w, pl) ==
    /\ th[w].pc = "idle"
    /\ nextLogin <= MaxLogins
    /\ logins' = add_login(logins, pl, nextLogin)
    /\ nextLogin' = nextLogin + 1
    /\ th' = [th EXCEPT ![w] = [Idle EXCEPT !.pc = "check_waiting_users_for_login",
                                            !.op = "add_login_command",
                                            !.plan_type = pl]]
    /\ alerted' = FALSE
    /\ UNCHANGED <<payments, users, nextPaymentId, expiredAge, consumed, calls, expiring, bot_config, graceOver, chat, auth_data, nextCode, verified>>

check_waiting_users_for_login(w) ==
    /\ th[w].pc = "check_waiting_users_for_login"
    /\ th' = [th EXCEPT ![w] =
                Continue([th[w] EXCEPT !.todo = waiting(payments, {th[w].plan_type})])]
    /\ UNCHANGED <<ops, payments, users, logins, nextPaymentId, nextLogin, expiredAge, consumed, calls, expiring, bot_config, graceOver, alerted, chat, auth_data, nextCode, verified>>

\* utils.process_successful_referral: the referrer's record is read, its
\* successful_referrals incremented, and saved
process_successful_referral(w) ==
    /\ th[w].pc = "process_successful_referral"
    /\ users' = [users EXCEPT ![th[w].user.referred_by].successful_referrals = @ + 1]
    /\ th' = [th EXCEPT ![w] = Assigned(th[w])]
    /\ UNCHANGED <<ops, payments, logins, nextPaymentId, nextLogin, expiredAge, consumed, calls, expiring, bot_config, graceOver, alerted, chat, auth_data, nextCode, verified>>

\* ------------------------------------------------ utils: the coupon
\* the discount of a coupon on an amount, in centavos
coupon_discount(config, amount) ==
    IF config.discount_type = "percentage"
    THEN (amount * config.discount_value) \div 100
    ELSE config.discount_value

\* validate_coupon without its last adjustment of the discount
uncapped_discount(config, amount) ==
    coupon_discount(config, amount)

\* the discount validate_coupon grants: 0.01 is left to pay when the
\* coupon's discount would take the whole amount
capped_discount(config, amount) ==
    IF amount - coupon_discount(config, amount) <= 0
    THEN amount - 1
    ELSE coupon_discount(config, amount)

\* validate_coupon with the tests of coupon_service.validate_coupon, which
\* does not look at the customer
validate_coupon_any_customer(config, file, u, plan_type, amount) ==
    IF ~config.coupon_exists THEN Refused("not found")
    ELSE IF config.coupon_expired THEN Refused("expired")
    ELSE IF config.uses >= max_uses THEN Refused("max_uses")
    ELSE IF amount < config.min_purchase THEN Refused("min_purchase")
    ELSE IF /\ "all" \notin config.applicable_plans
            /\ plan_type \notin config.applicable_plans
         THEN Refused("applicable_plans")
    ELSE [ok |-> TRUE, msg |-> "applied",
          discount |-> capped_discount(config, amount),
          final_amount |-> amount - capped_discount(config, amount)]

\* validate_coupon(code, user_id, plan_type, amount) for the code of the
\* coupon, against the configuration and the users file it reads: the tests
\* in the order of the code, then the discount, which leaves 0.01 to pay
\* when it would take the whole amount
validate_coupon(config, file, u, plan_type, amount) ==
    IF ~config.coupon_exists THEN Refused("not found")
    ELSE IF config.coupon_expired THEN Refused("expired")
    ELSE IF max_uses # -1 /\ config.uses >= max_uses THEN Refused("max_uses")
    ELSE IF max_uses_per_user # -1 /\ config.usage_history[u] >= max_uses_per_user
         THEN Refused("max_uses_per_user")
    ELSE IF config.min_purchase # 0 /\ amount < config.min_purchase
         THEN Refused("min_purchase")
    ELSE IF "all" \notin config.applicable_plans /\ plan_type \notin config.applicable_plans
         THEN Refused("applicable_plans")
    ELSE IF file[u].is_first_buy THEN Refused("first purchase")
    ELSE [ok |-> TRUE, msg |-> "applied",
          discount |-> capped_discount(config, amount),
          final_amount |-> amount - capped_discount(config, amount)]

\* use_coupon: nothing is written for a code that is no key of the coupons
use_coupon(config, code, u) ==
    IF code = COUPON /\ config.coupon_exists
    THEN [config EXCEPT !.uses = @ + 1, !.usage_history[u] = @ + 1]
    ELSE config

\* bot.use_coupon_callback, the coupon button of the confirmation message:
\* refused before the first purchase; the message becomes the prompt for the
\* code, and the plan and float(data_parts[3]) of the button are kept for
\* process_coupon_code
use_coupon_callback(u) ==
    /\ chat[u].screen \in {"confirm", "coupon refused"}
    /\ chat[u].call.coupon_code = None
    /\ ~users[u].is_first_buy
    /\ chat' = [chat EXCEPT ![u] =
                  [screen |-> "coupon",
                   call |-> [chat[u].call EXCEPT !.price = (@ \div 100) * 100],
                   msg |-> None]]
    /\ UNCHANGED <<payments, users, logins, th, nextPaymentId, nextLogin, expiredAge, consumed, calls, expiring, bot_config, graceOver, alerted, auth_data, nextCode, verified>>

\* bot.process_coupon_code: the customer types the code for the plan and the
\* price of the message they asked from.  A refused coupon is answered with
\* the reason and a button to try again; a valid coupon is registered as
\* used at once and a Confirm button carrying it and the final price is sent
process_coupon_code(w, u, call) ==
    /\ th[w].pc = "idle"
    /\ LET coupon_result ==
             validate_coupon(bot_config, users, u, call.plan_type, call.price)
       IN IF coupon_result.ok
          THEN /\ th' = [th EXCEPT ![w] =
                           [Idle EXCEPT !.pc = "use_coupon",
                                        !.op = "process_coupon_code",
                                        !.user_id = u,
                                        !.coupon_code = COUPON,
                                        !.data = call,
                                        !.coupon_result = coupon_result]]
               /\ UNCHANGED chat
          ELSE /\ chat' = [chat EXCEPT ![u] = [screen |-> "coupon refused",
                                               call |-> call,
                                               msg |-> coupon_result.msg]]
               /\ UNCHANGED th
    /\ UNCHANGED <<payments, users, logins, nextPaymentId, nextLogin, expiredAge, expiring, bot_config, graceOver, consumed, calls, alerted, auth_data, nextCode, verified>>

\* use_coupon(code, user_id): bot_config.json is read, the two counters are
\* incremented, the file is written
call_use_coupon(w) ==
    /\ th[w].pc = "use_coupon"
    /\ bot_config' = use_coupon(bot_config, th[w].coupon_code, th[w].user_id)
    /\ th' = [th EXCEPT ![w] = Continue(th[w])]
    /\ chat' = IF th[w].op = "process_coupon_code"
               THEN [chat EXCEPT ![th[w].user_id] =
                       [screen |-> "confirm",
                        call |-> [th[w].data EXCEPT
                                    !.price = th[w].coupon_result.final_amount,
                                    !.coupon_code = COUPON],
                        msg |-> None]]
               ELSE chat
    /\ UNCHANGED <<ops, payments, users, logins, nextPaymentId, nextLogin, expiredAge, expiring, graceOver, consumed, calls, alerted, auth_data, nextCode, verified>>

\* ------------------------------------------- utils: the sales flags
no_logins(file) == \A pl \in PLANS : file[pl] = <<>>

\* sales_suspended_time = datetime.now()
suspend_sales(config) ==
    [config EXCEPT !.sales_enabled = FALSE, !.sales_suspended_time = "suspended"]

resume_sales(config) ==
    [config EXCEPT !.sales_enabled = TRUE, !.sales_suspended_time = None,
                   !.warning_sent = FALSE]

\* app.toggle_sales: sales_enabled() is read, then suspend_sales or
\* resume_sales reads and writes the file
toggle_sales ==
    /\ bot_config' = IF bot_config.sales_enabled THEN suspend_sales(bot_config)
                                                 ELSE resume_sales(bot_config)
    /\ UNCHANGED <<payments, users, logins, th, nextPaymentId, nextLogin, expiredAge, expiring, graceOver, consumed, calls, alerted, chat, auth_data, nextCode, verified>>

\* the end of add_login_command: sales that are suspended are resumed
add_login_resume(w) ==
    /\ th[w].pc = "add_login_resume"
    /\ bot_config' = IF bot_config.sales_enabled THEN bot_config
                                                 ELSE resume_sales(bot_config)
    /\ th' = [th EXCEPT ![w] = Idle]
    /\ UNCHANGED <<ops, payments, users, logins, nextPaymentId, nextLogin, expiredAge, expiring, graceOver, consumed, calls, alerted, chat, auth_data, nextCode, verified>>

\* ------------------------------------------- bot.check_login_availability
\* one pass of the background loop: the waiting payments, then the stale
\* pending gateway payments
\* The pass starts with the sales governor: logins.json and bot_config.json
\* are read; with no login left and sales enabled, either the warning is due
\* (written after the message to the admin is sent), or the deadline of the
\* warning is compared with the clock and suspend_sales is called
check_login_availability(w) ==
    /\ th[w].pc = "idle"
    /\ \A v \in Workers : th[v].op # "check_login_availability"
    /\ LET t == [Idle EXCEPT !.op = "check_login_availability",
                             !.config = bot_config]
           due == /\ bot_config.sales_suspended_time # None
                  /\ bot_config.sales_suspended_time = "deadline" => graceOver
       IN IF no_logins(logins) /\ bot_config.sales_enabled /\ ~bot_config.warning_sent
          THEN /\ th' = [th EXCEPT ![w] = [t EXCEPT !.pc = "warning_sent_write"]]
               /\ bot_config' = bot_config
               /\ alerted' = TRUE
          ELSE /\ th' = [th EXCEPT ![w] = [t EXCEPT !.pc = "waiting_users"]]
               /\ bot_config' = IF no_logins(logins) /\ bot_config.sales_enabled /\ due
                                THEN suspend_sales(bot_config)
                                ELSE bot_config
               /\ alerted' = alerted
    /\ UNCHANGED <<payments, users, logins, nextPaymentId, nextLogin, expiredAge, consumed, calls, expiring, graceOver, chat, auth_data, nextCode, verified>>

\* the warning went out: warning_sent and the deadline, now + 5 minutes, are
\* set in the configuration read at the start of the pass, which is written
warning_sent_write(w) ==
    /\ th[w].pc = "warning_sent_write"
    /\ LET config == [th[w].config EXCEPT !.warning_sent = TRUE,
                                          !.sales_suspended_time = "deadline"]
       IN /\ bot_config' = config
          /\ th' = [th EXCEPT ![w].pc = "waiting_users", ![w].config = config]
    /\ graceOver' = FALSE
    /\ UNCHANGED <<ops, payments, users, logins, nextPaymentId, nextLogin, expiredAge, expiring, consumed, calls, alerted, chat, auth_data, nextCode, verified>>

\* get_users_waiting_for_login(): the list the pass then works through
waiting_users(w) ==
    /\ th[w].pc = "waiting_users"
    /\ th' = [th EXCEPT ![w] =
                Continue([th[w] EXCEPT !.todo = waiting(payments, PLANS)])]
    /\ UNCHANGED <<ops, payments, users, logins, nextPaymentId, nextLogin, expiredAge, expiring, bot_config, graceOver, consumed, calls, alerted, chat, auth_data, nextCode, verified>>

\* utils.get_expiring_subscriptions is not empty: the notification loop ends
\* at mark_expiration_notified, a name that is not defined, and the except
\* clause of the loop ends this pass; otherwise the pass goes on
expiring_subs(w) ==
    /\ th[w].pc = "expiring_subs"
    /\ IF expiring # {}
       THEN th' = [th EXCEPT ![w] = Idle]
       ELSE th' = [th EXCEPT ![w].pc = "pending_approvals"]
    /\ UNCHANGED <<ops, payments, users, logins, nextPaymentId, nextLogin, expiredAge, expiring, consumed, calls, bot_config, graceOver, alerted, chat, auth_data, nextCode, verified>>

\* utils.get_pending_approvals: pending payments that carry a payer name
get_pending_approvals(file) ==
    {p \in PaymentIds : file[p].status = "pending" /\ file[p].payer_name}

\* the admin is told once that payments wait for approval: the flag is set
\* in the configuration read at the start of the pass, which is written
pending_approvals(w) ==
    /\ th[w].pc = "pending_approvals"
    /\ bot_config' =
          IF /\ get_pending_approvals(payments) # {}
             /\ ~th[w].config.pending_payment_notified
          THEN [th[w].config EXCEPT !.pending_payment_notified = TRUE]
          ELSE bot_config
    /\ th' = [th EXCEPT ![w].pc = "expired_read"]
    /\ UNCHANGED <<ops, payments, users, logins, nextPaymentId, nextLogin, expiredAge, expiring, graceOver, consumed, calls, alerted, chat, auth_data, nextCode, verified>>

\* pending payments with a gateway id that are older than 10 minutes
stale(file, old) ==
    {p \in PaymentIds : /\ file[p].status = "pending"
                        /\ file[p].mp_payment_id # NoRef
                        /\ p \in old}

expired_read(w) ==
    /\ th[w].pc = "expired_read"
    /\ IF stale(payments, expiredAge) = {}
       THEN th' = [th EXCEPT ![w] = Idle]
       ELSE th' = [th EXCEPT ![w].pc = "expired_write", ![w].snap = payments,
                              ![w].todo = InOrder(stale(payments, expiredAge), 1)]
    /\ UNCHANGED <<ops, payments, users, logins, nextPaymentId, nextLogin, expiredAge, consumed, calls, expiring, bot_config, graceOver, alerted, chat, auth_data, nextCode, verified>>

\* the gateway cancels are done; the ledger read before them is written back
expired_write(w) ==
    /\ th[w].pc = "expired_write"
    /\ payments' = [p \in PaymentIds |->
                      IF p \in Range(th[w].todo)
                      THEN [th[w].snap[p] EXCEPT !.status = "expired"]
                      ELSE th[w].snap[p]]
    /\ th' = [th EXCEPT ![w] = Idle]
    /\ UNCHANGED <<ops, users, logins, nextPaymentId, nextLogin, expiredAge, consumed, calls, expiring, bot_config, graceOver, alerted, chat, auth_data, nextCode, verified>>

\* ------------------------------------------ utils.get_user_pending_payment
\* the first pending payment of the user in file order, 0 when none
first_pending(file, u) ==
    LET S == {p \in PaymentIds : file[p].user_id = u /\ file[p].status = "pending"}
    IN IF S = {} THEN 0 ELSE CHOOSE p \in S : \A q \in S : p <= q

\* the pending payment found is older than 10 minutes
get_user_pending_payment(w, u) ==
    /\ th[w].pc = "idle"
    /\ first_pending(payments, u) \in expiredAge
    /\ th' = [th EXCEPT ![w] = [Idle EXCEPT !.pc = "get_user_pending_payment_write",
                                            !.op = "get_user_pending_payment",
                                            !.pid = first_pending(payments, u),
                                            !.snap = payments]]
    /\ UNCHANGED <<payments, users, logins, nextPaymentId, nextLogin, expiredAge, consumed, calls, expiring, bot_config, graceOver, alerted, chat, auth_data, nextCode, verified>>

\* the payment is marked expired in the snapshot and the file written; None
\* is returned, on which show_plans lists the plans and select_plan goes on
\* to the price
get_user_pending_payment_write(w) ==
    /\ th[w].pc = "get_user_pending_payment_write"
    /\ payments' = [th[w].snap EXCEPT ![th[w].pid].status = "expired"]
    /\ th' = [th EXCEPT ![w] = IF th[w].op = "select_plan"
                               THEN [th[w] EXCEPT !.pc = "select_plan_price"]
                               ELSE Idle]
    /\ chat' = IF th[w].op = "show_plans"
               THEN [chat EXCEPT ![th[w].user_id] = [NewChat EXCEPT !.screen = "plans"]]
               ELSE chat
    /\ UNCHANGED <<ops, users, logins, nextPaymentId, nextLogin, expiredAge, consumed, calls, expiring, bot_config, graceOver, alerted, auth_data, nextCode, verified>>

\* ------------------------------------------------ bot: the purchase menu
\* what the lookup of the customer's pending payment leaves a handler with:
\* "none", the "pending" payment to show, or a "stale" one to expire first
pending_lookup(u) ==
    IF first_pending(payments, u) = 0 THEN "none"
    ELSE IF first_pending(payments, u) \in expiredAge THEN "stale"
    ELSE "pending"

\* the worker that goes on to expire the stale payment of the customer
stale_lookup(op, u, pl) ==
    [Idle EXCEPT !.pc = "get_user_pending_payment_write", !.op = op,
                 !.user_id = u, !.plan_type = pl,
                 !.pid = first_pending(payments, u), !.snap = payments]

\* bot.show_plans: refused while sales are suspended; a customer with a
\* pending payment is shown that payment; otherwise the message becomes the
\* list of plans, each a select_plan button
show_plans(w, u) ==
    /\ th[w].pc = "idle"
    /\ IF ~bot_config.sales_enabled
       THEN /\ chat' = [chat EXCEPT ![u] = [NewChat EXCEPT !.screen = "suspended"]]
            /\ UNCHANGED th
       ELSE CASE pending_lookup(u) = "pending" ->
                   /\ chat' = [chat EXCEPT ![u] = [NewChat EXCEPT !.screen = "payment"]]
                   /\ UNCHANGED th
              [] pending_lookup(u) = "stale" ->
                   /\ th' = [th EXCEPT ![w] = stale_lookup("show_plans", u, None)]
                   /\ UNCHANGED chat
              [] pending_lookup(u) = "none" ->
                   /\ chat' = [chat EXCEPT ![u] = [NewChat EXCEPT !.screen = "plans"]]
                   /\ UNCHANGED th
    /\ UNCHANGED <<payments, users, logins, nextPaymentId, nextLogin, expiredAge, consumed, calls, expiring, bot_config, graceOver, alerted, auth_data, nextCode, verified>>

\* bot.select_plan, pressed on the list of plans: a customer with a pending
\* payment is shown that payment, otherwise the handler goes on to the price.
\* Nothing reads the sales flag
select_plan(w, u, pl) ==
    /\ th[w].pc = "idle"
    /\ chat[u].screen = "plans"
    /\ CASE pending_lookup(u) = "pending" ->
              /\ chat' = [chat EXCEPT ![u] = [NewChat EXCEPT !.screen = "payment"]]
              /\ UNCHANGED th
         [] pending_lookup(u) = "stale" ->
              /\ th' = [th EXCEPT ![w] = stale_lookup("select_plan", u, pl)]
              /\ UNCHANGED chat
         [] pending_lookup(u) = "none" ->
              /\ th' = [th EXCEPT ![w] = [Idle EXCEPT !.pc = "select_plan_price",
                                                      !.op = "select_plan",
                                                      !.user_id = u,
                                                      !.plan_type = pl]]
              /\ UNCHANGED chat
    /\ UNCHANGED <<payments, users, logins, nextPaymentId, nextLogin, expiredAge, consumed, calls, expiring, bot_config, graceOver, alerted, auth_data, nextCode, verified>>

\* utils.apply_referral_discount: <<final amount, discount applied>> for the
\* customer's record
apply_referral_discount(user, amount) ==
    IF user.is_first_buy THEN <<amount, FALSE>>
    ELSE IF user.referred_by # None /\ ~user.referral_discount_applied
         THEN <<amount - (referrer_discount * amount) \div 100, TRUE>>
         ELSE <<amount, FALSE>>

\* select_plan from calculate_plan_price on: the referral discount is taken
\* and marked on the customer's record, and the message becomes the
\* confirmation with a Confirm button and a coupon button, both carrying the
\* plan and the final price
select_plan_price(w) ==
    /\ th[w].pc = "select_plan_price"
    /\ LET u == th[w].user_id
           price == calculate_plan_price(users[u], th[w].plan_type, bot_config)
           final == apply_referral_discount(users[u], price)
       IN /\ users' = IF final[2]
                       THEN [users EXCEPT ![u].referral_discount_applied = TRUE]
                       ELSE users
          /\ chat' = [chat EXCEPT ![u] =
                        [screen |-> "confirm",
                         call |-> [plan_type |-> th[w].plan_type,
                                   price |-> final[1],
                                   coupon_code |-> None,
                                   discount_applied |-> final[2]],
                         msg |-> None]]
    /\ th' = [th EXCEPT ![w] = Idle]
    /\ UNCHANGED <<ops, payments, logins, nextPaymentId, nextLogin, expiredAge, consumed, calls, expiring, bot_config, graceOver, alerted, auth_data, nextCode, verified>>

\* ------------------------------------------------------------ the clock
\* datetime.now() passes created_at + 10 minutes of a payment
TenMinutesPass(p) ==
    /\ payments[p].status = "pending"
    /\ p \notin expiredAge
    /\ expiredAge' = expiredAge \cup {p}
    /\ UNCHANGED <<payments, users, logins, th, nextPaymentId, nextLogin, consumed, calls, expiring, bot_config, graceOver, alerted, chat, auth_data, nextCode, verified>>

\* datetime.now() reaches the sales_suspended_time written with the warning
FiveMinutesPass ==
    /\ bot_config.sales_suspended_time = "deadline"
    /\ ~graceOver
    /\ graceOver' = TRUE
    /\ UNCHANGED <<payments, users, logins, th, nextPaymentId, nextLogin, expiredAge, expiring, bot_config, consumed, calls, alerted, chat, auth_data, nextCode, verified>>

\* bot.process_payer_name: update_payment(payment_id, {'payer_name': ...})
process_payer_name(p) ==
    /\ Exists(payments, p)
    /\ payments' = update_payment(payments, payments, p, [payer_name |-> TRUE])
    /\ UNCHANGED <<users, logins, th, nextPaymentId, nextLogin, expiredAge, expiring, bot_config, graceOver, consumed, calls, alerted, chat, auth_data, nextCode, verified>>

\* datetime.now() comes within 3 days of a customer's plan_expiration
PlanNearsExpiration(u) ==
    /\ users[u].login_info # 0
    /\ u \notin expiring
    /\ expiring' = expiring \cup {u}
    /\ UNCHANGED <<payments, users, logins, th, nextPaymentId, nextLogin, expiredAge, consumed, calls, bot_config, graceOver, alerted, chat, auth_data, nextCode, verified>>

\* ------------------------------------------------ the sequential runs
\* the purchase and admin handlers of the bot and of the dashboard, run one
\* after the other
Next ==
    \/ \E u \in Users, pl \in PLANS : Serial /\ confirm_plan(SeqWorker, u, Confirm(u, pl))
    \/ \E p \in PaymentIds : Serial /\ payment_done(SeqWorker, p)
    \/ \E p \in PaymentIds : Serial /\ cancel_payment(SeqWorker, p)
    \/ \E p \in PaymentIds : Serial /\ approve_payment(SeqWorker, p)
    \/ \E p \in PaymentIds : Serial /\ reject_payment(SeqWorker, p)
    \/ \E pl \in PLANS : Serial /\ add_login_command(SeqWorker, pl)
    \/ \E p \in PaymentIds : Serial /\ app_approve_payment(p)
    \/ \E p \in PaymentIds : Serial /\ app_reject_payment(p)
    \/ \E pl \in PLANS : Serial /\ add_login_route(pl)
    \/ create_payment_write(SeqWorker)
    \/ payment_done_write(SeqWorker)
    \/ cancel_payment_write(SeqWorker)
    \/ approve_payment_write(SeqWorker)
    \/ reject_payment_write(SeqWorker)
    \/ assign_login_to_user(SeqWorker)
    \/ assign_save_user(SeqWorker)
    \/ assign_update_payment(SeqWorker)
    \/ assign_update_payment_write(SeqWorker)
    \/ assign_remove_login(SeqWorker)
    \/ check_waiting_users_for_login(SeqWorker)
    \/ add_login_resume(SeqWorker)

Spec == Init /\ [][Next]_vars

\* ----------------------------------------------------- gateway handlers
\* the gateway purchase path: charge, webhook, cancel, reject and the expiry
\* of stale pending payments, run one after the other
NextGateway ==
    \/ \E u \in Users, pl \in PLANS : Serial /\ confirm_plan(SeqWorker, u, Confirm(u, pl))
    \/ \E p \in PaymentIds, kind \in IdKinds :
          Serial /\ pay_with_pix_mercado_pago(SeqWorker, p, kind)
    \/ \E p \in PaymentIds, kind \in IdKinds, embedded \in GatewayStatuses,
          payment_status \in GetAnswers :
          Serial /\ mercadopago_webhook(SeqWorker, <<kind, p>>, embedded,
                                        payment_status)
    \/ \E p \in PaymentIds : Serial /\ cancel_payment(SeqWorker, p)
    \/ \E p \in PaymentIds : Serial /\ reject_payment(SeqWorker, p)
    \/ Serial /\ check_login_availability(SeqWorker)
    \/ \E pl \in PLANS : Serial /\ add_login_route(pl)
    \/ \E p \in PaymentIds : Serial /\ TenMinutesPass(p)
    \/ create_payment_write(SeqWorker)
    \/ cancel_payment_write(SeqWorker)
    \/ reject_payment_write(SeqWorker)
    \/ pay_with_pix_write(SeqWorker)
    \/ mercadopago_webhook_write(SeqWorker)
    \/ assign_login_to_user(SeqWorker)
    \/ assign_save_user(SeqWorker)
    \/ assign_update_payment(SeqWorker)
    \/ assign_update_payment_write(SeqWorker)
    \/ assign_remove_login(SeqWorker)
    \/ warning_sent_write(SeqWorker)
    \/ waiting_users(SeqWorker)
    \/ expiring_subs(SeqWorker)
    \/ pending_approvals(SeqWorker)
    \/ expired_read(SeqWorker)
    \/ expired_write(SeqWorker)

SpecGateway == Init /\ [][NextGateway]_vars

\* ------------------------------------------------- the webhook endpoint
\* purchases paid by PIX charge and the events the gateway posts for them,
\* run one after the other
NextWebhook ==
    \/ \E u \in Users, pl \in PLANS : Serial /\ confirm_plan(SeqWorker, u, Confirm(u, pl))
    \/ \E p \in PaymentIds, kind \in IdKinds :
          Serial /\ pay_with_pix_mercado_pago(SeqWorker, p, kind)
    \/ \E p \in PaymentIds, kind \in IdKinds, embedded \in GatewayStatuses,
          payment_status \in GetAnswers :
          Serial /\ mercadopago_webhook(SeqWorker, <<kind, p>>, embedded,
                                        payment_status)
    \/ \E p \in PaymentIds : Serial /\ cancel_payment(SeqWorker, p)
    \/ \E pl \in PLANS : Serial /\ add_login_route(pl)
    \/ create_payment_write(SeqWorker)
    \/ cancel_payment_write(SeqWorker)
    \/ pay_with_pix_write(SeqWorker)
    \/ mercadopago_webhook_write(SeqWorker)
    \/ assign_login_to_user(SeqWorker)
    \/ assign_save_user(SeqWorker)
    \/ assign_update_payment(SeqWorker)
    \/ assign_update_payment_write(SeqWorker)
    \/ assign_remove_login(SeqWorker)

SpecWebhook == Init /\ [][NextWebhook]_vars

\* --------------------------------- the two handlers of a gateway status
\* PIX purchases whose gateway status reaches the ledger through the
\* endpoint of the dashboard or through the service function, one handler
\* after the other
NextReconcile ==
    \/ \E u \in Users, pl \in PLANS : Serial /\ confirm_plan(SeqWorker, u, Confirm(u, pl))
    \/ \E p \in PaymentIds :
          Serial /\ pay_with_pix_mercado_pago(SeqWorker, p, "str")
    \/ \E p \in PaymentIds, payment_status \in GetAnswers :
          Serial /\ mercadopago_webhook(SeqWorker, <<"str", p>>, payment_status,
                                        payment_status)
    \/ \E p \in PaymentIds, payment_status \in GetAnswers :
          Serial /\ process_mercado_pago_webhook(SeqWorker, <<"str", p>>,
                                                 payment_status)
    \/ \E pl \in PLANS : Serial /\ add_login_route(pl)
    \/ create_payment_write(SeqWorker)
    \/ pay_with_pix_write(SeqWorker)
    \/ mercadopago_webhook_write(SeqWorker)
    \/ process_webhook_update(SeqWorker)
    \/ process_webhook_write(SeqWorker)
    \/ assign_login_to_user(SeqWorker)
    \/ assign_save_user(SeqWorker)
    \/ assign_update_payment(SeqWorker)
    \/ assign_update_payment_write(SeqWorker)
    \/ assign_remove_login(SeqWorker)

SpecReconcile == Init /\ [][NextReconcile]_vars

\* --------------------------------- the admin's decisions on a payment
\* manual purchases decided by the admin from the bot or from the dashboard,
\* with credentials added by the bot command, one handler after the other
NextAdmin ==
    \/ \E u \in Users, pl \in PLANS : Serial /\ confirm_plan(SeqWorker, u, Confirm(u, pl))
    \/ \E p \in PaymentIds : Serial /\ payment_done(SeqWorker, p)
    \/ \E p \in PaymentIds : Serial /\ approve_payment(SeqWorker, p)
    \/ \E p \in PaymentIds : Serial /\ reject_payment(SeqWorker, p)
    \/ \E p \in PaymentIds : Serial /\ app_approve_payment(p)
    \/ \E p \in PaymentIds : Serial /\ app_reject_payment(p)
    \/ \E pl \in PLANS : Serial /\ add_login_command(SeqWorker, pl)
    \/ create_payment_write(SeqWorker)
    \/ payment_done_write(SeqWorker)
    \/ approve_payment_write(SeqWorker)
    \/ reject_payment_write(SeqWorker)
    \/ assign_login_to_user(SeqWorker)
    \/ assign_save_user(SeqWorker)
    \/ assign_update_payment(SeqWorker)
    \/ assign_update_payment_write(SeqWorker)
    \/ assign_remove_login(SeqWorker)
    \/ check_waiting_users_for_login(SeqWorker)
    \/ add_login_resume(SeqWorker)

SpecAdmin == Init /\ [][NextAdmin]_vars

\* ------------------------------------------------- the sales governor
\* purchases approved by the admin, credentials added from the bot and from
\* the dashboard, the passes of the background loop and the clock, one
\* handler after the other
NextGovernor ==
    \/ \E u \in Users, pl \in PLANS : Serial /\ confirm_plan(SeqWorker, u, Confirm(u, pl))
    \/ \E p \in PaymentIds : Serial /\ approve_payment(SeqWorker, p)
    \/ \E pl \in PLANS : Serial /\ add_login_route(pl)
    \/ \E pl \in PLANS : Serial /\ add_login_command(SeqWorker, pl)
    \/ Serial /\ check_login_availability(SeqWorker)
    \/ Serial /\ FiveMinutesPass
    \/ create_payment_write(SeqWorker)
    \/ approve_payment_write(SeqWorker)
    \/ assign_login_to_user(SeqWorker)
    \/ assign_save_user(SeqWorker)
    \/ assign_update_payment(SeqWorker)
    \/ assign_update_payment_write(SeqWorker)
    \/ assign_remove_login(SeqWorker)
    \/ check_waiting_users_for_login(SeqWorker)
    \/ add_login_resume(SeqWorker)
    \/ warning_sent_write(SeqWorker)
    \/ waiting_users(SeqWorker)
    \/ expiring_subs(SeqWorker)
    \/ pending_approvals(SeqWorker)
    \/ expired_read(SeqWorker)

SpecGovernor == Init /\ [][NextGovernor]_vars

\* ------------------------------------------------- the background pass
SweepStep(w) ==
    \/ create_payment_write(w)
    \/ pay_with_pix_write(w)
    \/ assign_login_to_user(w)
    \/ assign_save_user(w)
    \/ assign_update_payment(w)
    \/ assign_update_payment_write(w)
    \/ assign_remove_login(w)
    \/ check_waiting_users_for_login(w)
    \/ add_login_resume(w)
    \/ cancel_payment_write(w)
    \/ warning_sent_write(w)
    \/ waiting_users(w)
    \/ expiring_subs(w)
    \/ pending_approvals(w)
    \/ expired_read(w)
    \/ expired_write(w)

\* purchases paid at the gateway or approved on the dashboard, the customer's
\* cancel, the two ways of adding a credential, the clock, and the passes of
\* the background loop, run one after the other
NextSweep ==
    \/ \E u \in Users, pl \in PLANS : Serial /\ confirm_plan(SeqWorker, u, Confirm(u, pl))
    \/ \E p \in PaymentIds, kind \in IdKinds :
          Serial /\ pay_with_pix_mercado_pago(SeqWorker, p, kind)
    \/ \E p \in PaymentIds : Serial /\ app_approve_payment(p)
    \/ \E pl \in PLANS : Serial /\ add_login_route(pl)
    \/ \E pl \in PLANS : Serial /\ add_login_command(SeqWorker, pl)
    \/ Serial /\ check_login_availability(SeqWorker)
    \/ \E p \in PaymentIds : Serial /\ TenMinutesPass(p)
    \/ \E p \in PaymentIds : Serial /\ cancel_payment(SeqWorker, p)
    \/ \E u \in Users : Serial /\ PlanNearsExpiration(u)
    \/ SweepStep(SeqWorker)

SpecSweep == Init /\ [][NextSweep]_vars

\* the background thread starts a pass every 300 seconds whatever the
\* handlers do in between, and a handler that has started runs to its end
SpecSweepFair ==
    /\ SpecSweep
    /\ SF_vars(Serial /\ check_login_availability(SeqWorker))
    /\ WF_vars(SweepStep(SeqWorker))

\* ------------------------------------------------- purchases with a coupon
\* a customer buys, with or without the coupon, and the admin approves and
\* adds credentials on the dashboard, one handler after the other
NextCoupon ==
    \/ \E u \in Users, pl \in PLANS :
          Serial /\ confirm_plan(SeqWorker, u, Confirm(u, pl))
    \/ \E u \in Users :
          Serial /\ chat[u].screen = "confirm" /\ confirm_plan(SeqWorker, u, chat[u].call)
    \/ \E u \in Users, pl \in PLANS :
          Serial /\ process_coupon_code(SeqWorker, u, Confirm(u, pl))
    \/ \E p \in PaymentIds : Serial /\ approve_payment(SeqWorker, p)
    \/ \E pl \in PLANS : Serial /\ add_login_route(pl)
    \/ create_payment_write(SeqWorker)
    \/ approve_payment_write(SeqWorker)
    \/ assign_login_to_user(SeqWorker)
    \/ assign_save_user(SeqWorker)
    \/ assign_update_payment(SeqWorker)
    \/ assign_update_payment_write(SeqWorker)
    \/ assign_remove_login(SeqWorker)
    \/ call_use_coupon(SeqWorker)

SpecCoupon == Init /\ [][NextCoupon]_vars

\* ------------------------------------- concurrent writers of bot_config.json
\* customer u1 has bought once: payment 1 is completed with the one
\* credential there was, and the inventory is empty again
InitConfig ==
    /\ payments = [p \in PaymentIds |->
                     IF p = 1
                     THEN [create_payment_data(UserSeq[1], "30_days",
                                               PLAN_TABLE["30_days"].first_buy_price, "0") EXCEPT
                             !.status = "completed", !.login_delivered = TRUE]
                     ELSE NoPayment]
    /\ users = [u \in Users |->
                  IF u = UserSeq[1]
                  THEN [NewUser EXCEPT !.login_info = 1, !.plan_type = "30_days",
                                       !.is_first_buy = FALSE]
                  ELSE NewUser]
    /\ logins = [pl \in PLANS |-> <<>>]
    /\ th = [w \in Workers |-> Idle]
    /\ nextPaymentId = 2
    /\ nextLogin = 2
    /\ expiredAge = {}
    /\ expiring = {}
    /\ bot_config = NewConfig
    /\ graceOver = FALSE
    /\ alerted = FALSE
    /\ chat = [u \in Users |-> NewChat]
    /\ consumed = [p \in PaymentIds |-> IF p = 1 THEN 1 ELSE 0]
    /\ calls = [w \in Workers |-> NoCall]
    /\ ops = 0
    /\ auth_data = [c \in Codes |-> NoCode]
    /\ nextCode = 1
    /\ verified = [c \in Codes |-> 0]

\* the coupon entry of the customers, the passes of the background loop, the
\* dashboard's sales toggle and the clock, interleaved at every file access
NextConfig ==
    \/ \E w \in Workers, u \in Users, pl \in PLANS :
          UNCHANGED ops /\ process_coupon_code(w, u, Confirm(u, pl))
    \/ \E w \in Workers, u \in Users :
          UNCHANGED ops /\ chat[u].screen = "confirm" /\ confirm_plan(w, u, chat[u].call)
    \/ \E p \in PaymentIds : UNCHANGED ops /\ process_payer_name(p)
    \/ \E w \in Workers : UNCHANGED ops /\ check_login_availability(w)
    \/ UNCHANGED ops /\ toggle_sales
    \/ UNCHANGED ops /\ FiveMinutesPass
    \/ \E w \in Workers : create_payment_write(w)
    \/ \E w \in Workers : call_use_coupon(w)
    \/ \E w \in Workers : warning_sent_write(w)
    \/ \E w \in Workers : waiting_users(w)
    \/ \E w \in Workers : expiring_subs(w)
    \/ \E w \in Workers : pending_approvals(w)
    \/ \E w \in Workers : expired_read(w)

SpecConfig == InitConfig /\ [][NextConfig]_vars

\* -------------------------------------------- the seasonal discounts
\* app.add_seasonal_discount_route -> utils.add_seasonal_discount: a new entry
\* at the end of bot_config['seasonal_discounts'], expiring in the future;
\* no plan chosen on the form means every plan
add_seasonal_discount_route(discount_percent, applicable_plans) ==
    /\ Len(bot_config.seasonal_discounts) < MaxDiscounts
    /\ bot_config' =
          [bot_config EXCEPT !.seasonal_discounts =
              Append(@, [discount_percent |-> discount_percent,
                         expired |-> FALSE,
                         applicable_plans |-> IF applicable_plans = {}
                                              THEN Tiers
                                              ELSE applicable_plans])]
    /\ UNCHANGED <<payments, users, logins, th, nextPaymentId, nextLogin, expiredAge, consumed, calls, expiring, graceOver, alerted, chat, auth_data, nextCode, verified>>

\* the clock passes the expiration_date of a discount
SeasonalDiscountExpires(i) ==
    /\ i \in DOMAIN bot_config.seasonal_discounts
    /\ ~bot_config.seasonal_discounts[i].expired
    /\ bot_config' = [bot_config EXCEPT !.seasonal_discounts[i].expired = TRUE]
    /\ UNCHANGED <<payments, users, logins, th, nextPaymentId, nextLogin, expiredAge, consumed, calls, expiring, graceOver, alerted, chat, auth_data, nextCode, verified>>

\* the percentages the dashboard form is given
Percents == {10, 20}

\* customer u1 has bought once and u2 never; the admin adds seasonal
\* discounts, which expire in time, while the customers look at the prices
\* of the tiers
NextPrice ==
    \/ \E d \in Percents, plans \in {{}, {"6_months"}} :
          Serial /\ add_seasonal_discount_route(d, plans)
    \/ \E i \in 1..MaxDiscounts : Serial /\ SeasonalDiscountExpires(i)
    \/ \E u \in Users : Serial /\ show_plans(SeqWorker, u)
    \/ \E u \in Users, pl \in Tiers : Serial /\ select_plan(SeqWorker, u, pl)
    \/ select_plan_price(SeqWorker)

SpecPrice == InitConfig /\ [][NextPrice]_vars

\* ----------------------------------------------- the first-buy price
\* new customers look at the price, buy and are delivered a credential,
\* and look at the price again, while a seasonal discount comes and goes
NextFirstBuy ==
    \/ \E d \in Percents :
          Quiescent /\ Counted /\ add_seasonal_discount_route(d, {})
    \/ \E i \in 1..MaxDiscounts : Serial /\ SeasonalDiscountExpires(i)
    \/ \E u \in Users : Serial /\ show_plans(SeqWorker, u)
    \/ \E u \in Users, pl \in PLANS : Serial /\ select_plan(SeqWorker, u, pl)
    \/ \E u \in Users :
          /\ Quiescent /\ Counted
          /\ chat[u].screen = "confirm"
          /\ confirm_plan(SeqWorker, u, chat[u].call)
    \/ \E p \in PaymentIds : Quiescent /\ Counted /\ approve_payment(SeqWorker, p)
    \/ \E pl \in PLANS : Quiescent /\ Counted /\ add_login_route(pl)
    \/ select_plan_price(SeqWorker)
    \/ create_payment_write(SeqWorker)
    \/ approve_payment_write(SeqWorker)
    \/ assign_login_to_user(SeqWorker)
    \/ assign_save_user(SeqWorker)
    \/ assign_update_payment(SeqWorker)
    \/ assign_update_payment_write(SeqWorker)
    \/ assign_remove_login(SeqWorker)

SpecFirstBuy == Init /\ [][NextFirstBuy]_vars

\* ------------------------------------------------------- referrals
\* customer u1 started the bot from the referral link of u2
InitReferral ==
    /\ payments = [p \in PaymentIds |-> NoPayment]
    /\ users = [u \in Users |->
                  IF u = UserSeq[1]
                  THEN [NewUser EXCEPT !.referred_by = UserSeq[2]]
                  ELSE NewUser]
    /\ logins = [pl \in PLANS |-> <<>>]
    /\ th = [w \in Workers |-> Idle]
    /\ nextPaymentId = 1
    /\ nextLogin = 1
    /\ expiredAge = {}
    /\ expiring = {}
    /\ bot_config = NewConfig
    /\ graceOver = FALSE
    /\ alerted = FALSE
    /\ chat = [u \in Users |-> NewChat]
    /\ consumed = [p \in PaymentIds |-> 0]
    /\ calls = [w \in Workers |-> NoCall]
    /\ ops = 0
    /\ auth_data = [c \in Codes |-> NoCode]
    /\ nextCode = 1
    /\ verified = [c \in Codes |-> 0]

\* the customers walk the menu, with or without the coupon, and the admin
\* approves the payments and adds credentials, one handler after the other
NextReferral ==
    \/ \E u \in Users : Serial /\ show_plans(SeqWorker, u)
    \/ \E u \in Users, pl \in PLANS : Serial /\ select_plan(SeqWorker, u, pl)
    \/ \E u \in Users : Serial /\ use_coupon_callback(u)
    \/ \E u \in Users :
          Serial /\ chat[u].screen = "coupon" /\ process_coupon_code(SeqWorker, u, chat[u].call)
    \/ \E u \in Users :
          Serial /\ chat[u].screen = "confirm" /\ confirm_plan(SeqWorker, u, chat[u].call)
    \/ \E p \in PaymentIds : Serial /\ approve_payment(SeqWorker, p)
    \/ \E pl \in PLANS : Serial /\ add_login_route(pl)
    \/ \E p \in PaymentIds : Serial /\ TenMinutesPass(p)
    \/ get_user_pending_payment_write(SeqWorker)
    \/ select_plan_price(SeqWorker)
    \/ call_use_coupon(SeqWorker)
    \/ create_payment_write(SeqWorker)
    \/ approve_payment_write(SeqWorker)
    \/ assign_login_to_user(SeqWorker)
    \/ assign_save_user(SeqWorker)
    \/ assign_update_payment(SeqWorker)
    \/ assign_update_payment_write(SeqWorker)
    \/ assign_remove_login(SeqWorker)
    \/ process_successful_referral(SeqWorker)

SpecReferral == InitReferral /\ [][NextReferral]_vars

\* ------------------------------------------- the coupon's validation
\* the coupons add_coupon can have left in the configuration, some of their
\* uses taken by customers who are not followed here, or none when the admin
\* deleted it
Coupons ==
    {[NewConfig EXCEPT !.coupon_exists = e, !.uses = n, !.min_purchase = m,
                       !.applicable_plans = a, !.discount_type = d[1],
                       !.discount_value = d[2]] :
        e \in BOOLEAN, n \in 0..max_uses, m \in {0, 5000},
        a \in {{"all"}, {"6_months"}},
        d \in {<<"percentage", discount_value>>, <<"fixed", 500>>,
                <<"fixed", 2000>>, <<"fixed", 6000>>}}

\* customer u1 has bought once and u2 never
InitValidate ==
    /\ payments = [p \in PaymentIds |->
                     IF p = 1
                     THEN [create_payment_data(UserSeq[1], "30_days",
                                               PLAN_TABLE["30_days"].first_buy_price, "0") EXCEPT
                             !.status = "completed", !.login_delivered = TRUE]
                     ELSE NoPayment]
    /\ users = [u \in Users |->
                  IF u = UserSeq[1]
                  THEN [NewUser EXCEPT !.login_info = 1, !.plan_type = "30_days",
                                       !.is_first_buy = FALSE]
                  ELSE NewUser]
    /\ logins = [pl \in PLANS |-> <<>>]
    /\ th = [w \in Workers |-> Idle]
    /\ nextPaymentId = 2
    /\ nextLogin = 2
    /\ expiredAge = {}
    /\ expiring = {}
    /\ bot_config \in Coupons
    /\ graceOver = FALSE
    /\ alerted = FALSE
    /\ chat = [u \in Users |-> NewChat]
    /\ consumed = [p \in PaymentIds |-> IF p = 1 THEN 1 ELSE 0]
    /\ calls = [w \in Workers |-> NoCall]
    /\ ops = 0
    /\ auth_data = [c \in Codes |-> NoCode]
    /\ nextCode = 1
    /\ verified = [c \in Codes |-> 0]

\* the clock passes the expiration_date of the coupon
CouponExpires ==
    /\ ~bot_config.coupon_expired
    /\ bot_config' = [bot_config EXCEPT !.coupon_expired = TRUE]
    /\ UNCHANGED <<payments, users, logins, th, nextPaymentId, nextLogin, expiredAge, consumed, calls, expiring, graceOver, alerted, chat, auth_data, nextCode, verified>>

\* the customers type the code of the coupon for the price of a tier, before
\* and after the coupon expires
NextValidate ==
    \/ \E u \in Users, pl \in Tiers :
          Serial /\ process_coupon_code(SeqWorker, u, Confirm(u, pl))
    \/ Serial /\ CouponExpires
    \/ call_use_coupon(SeqWorker)

SpecValidate == InitValidate /\ [][NextValidate]_vars

\* ------------------------------------------------ the access codes
\* utils.generate_access_code: the codes the Telegram id had are removed and
\* a new code, valid for 24 hours, is stored
generate_access_code(telegram_id) ==
    /\ nextCode <= MaxCodes
    /\ auth_data' = [c \in Codes |->
                        IF c = nextCode
                        THEN [telegram_id |-> telegram_id, expired |-> FALSE]
                        ELSE IF auth_data[c].telegram_id = telegram_id
                             THEN NoCode
                             ELSE auth_data[c]]
    /\ nextCode' = nextCode + 1
    /\ UNCHANGED <<payments, users, logins, th, nextPaymentId, nextLogin, expiredAge, expiring, bot_config, graceOver, consumed, calls, alerted, chat, verified>>

\* datetime.now() passes expires_at of a stored code
AccessCodeExpires(c) ==
    /\ auth_data[c].telegram_id # None
    /\ ~auth_data[c].expired
    /\ auth_data' = [auth_data EXCEPT ![c].expired = TRUE]
    /\ UNCHANGED <<payments, users, logins, th, nextPaymentId, nextLogin, expiredAge, expiring, bot_config, graceOver, consumed, calls, alerted, chat, nextCode, verified>>

\* utils.verify_access_code, called by the login form: read_json_file(AUTH_FILE)
verify_access_code(w, telegram_id, code) ==
    /\ th[w].pc = "idle"
    /\ th' = [th EXCEPT ![w] = [Idle EXCEPT !.pc = "verify_access_code_write",
                                            !.op = "verify_access_code",
                                            !.user_id = telegram_id,
                                            !.code = code,
                                            !.snap = auth_data]]
    /\ UNCHANGED <<payments, users, logins, nextPaymentId, nextLogin, expiredAge, expiring, bot_config, graceOver, consumed, calls, alerted, chat, auth_data, nextCode, verified>>

\* a code that is missing or belongs to another id returns False; an expired
\* code is removed and returns False; a valid code is removed and returns
\* True. The file written is the one that was read.
verify_access_code_write(w) ==
    /\ th[w].pc = "verify_access_code_write"
    /\ LET t == th[w]
           code_data == t.snap[t.code]
       IN IF code_data.telegram_id = None \/ code_data.telegram_id # t.user_id
          THEN UNCHANGED <<auth_data, verified>>
          ELSE /\ auth_data' = [t.snap EXCEPT ![t.code] = NoCode]
               /\ verified' = IF code_data.expired
                               THEN verified
                               ELSE [verified EXCEPT ![t.code] = @ + 1]
    /\ th' = [th EXCEPT ![w] = Idle]
    /\ UNCHANGED <<ops, payments, users, logins, nextPaymentId, nextLogin, expiredAge, expiring, bot_config, graceOver, consumed, calls, alerted, chat, nextCode>>

\* admins ask the bot for a code and the login form is posted, on the
\* threads of the web server, interleaved at every file access
NextAccess ==
    \/ \E telegram_id \in Admins : UNCHANGED ops /\ generate_access_code(telegram_id)
    \/ \E c \in Codes : UNCHANGED ops /\ AccessCodeExpires(c)
    \/ \E w \in Workers, telegram_id \in Admins, code \in Codes :
          Counted /\ verify_access_code(w, telegram_id, code)
    \/ \E w \in Workers : verify_access_code_write(w)

SpecAccess == Init /\ [][NextAccess]_vars

\* ------------------------------------------ the repair of the ledger
\* bot.fix_inconsistent_payments, run by main.py and by run_bot when the
\* process starts: an approved payment without its login that was created
\* more than 60 days before is marked as delivered. old is the set of the
\* payments of that age; every payment of the model has its user and its plan
fix_inconsistent_payments(old) ==
    /\ payments' = [p \in PaymentIds |->
                       IF /\ payments[p].status = "approved"
                          /\ ~payments[p].login_delivered
                          /\ p \in old
                       THEN [payments[p] EXCEPT !.login_delivered = TRUE]
                       ELSE payments[p]]
    /\ UNCHANGED <<users, logins, th, nextPaymentId, nextLogin, expiredAge, expiring, bot_config, graceOver, consumed, calls, alerted, chat, auth_data, nextCode, verified>>

\* fix_inconsistent_payments.py, the script the operator runs: an approved
\* payment without its login is marked as delivered when its customer holds
\* a login of the same plan, and also when the customer holds no login
fix_inconsistent_payments_script ==
    /\ payments' = [p \in PaymentIds |->
                       IF /\ payments[p].status = "approved"
                          /\ ~payments[p].login_delivered
                          /\ \/ users[payments[p].user_id].login_info = 0
                             \/ users[payments[p].user_id].plan_type = payments[p].plan_type
                       THEN [payments[p] EXCEPT !.login_delivered = TRUE]
                       ELSE payments[p]]
    /\ UNCHANGED <<users, logins, th, nextPaymentId, nextLogin, expiredAge, expiring, bot_config, graceOver, consumed, calls, alerted, chat, auth_data, nextCode, verified>>

\* purchases approved by the admin with or without stock, credentials added,
\* the background loop, and the repairs at a restart and by the operator
NextRepair ==
    \/ \E u \in Users, pl \in PLANS : Serial /\ confirm_plan(SeqWorker, u, Confirm(u, pl))
    \/ \E p \in PaymentIds : Serial /\ approve_payment(SeqWorker, p)
    \/ \E pl \in PLANS : Serial /\ add_login_route(pl)
    \/ Serial /\ check_login_availability(SeqWorker)
    \/ Serial /\ fix_inconsistent_payments_script
    \/ \E old \in SUBSET PaymentIds : Serial /\ fix_inconsistent_payments(old)
    \/ create_payment_write(SeqWorker)
    \/ approve_payment_write(SeqWorker)
    \/ assign_login_to_user(SeqWorker)
    \/ assign_save_user(SeqWorker)
    \/ assign_update_payment(SeqWorker)
    \/ assign_update_payment_write(SeqWorker)
    \/ assign_remove_login(SeqWorker)
    \/ warning_sent_write(SeqWorker)
    \/ waiting_users(SeqWorker)
    \/ expiring_subs(SeqWorker)
    \/ pending_approvals(SeqWorker)
    \/ expired_read(SeqWorker)

SpecRepair == Init /\ [][NextRepair]_vars

\* ------------------------------------------------- the PIX charges
\* customers order and press the button of the PIX charge, again and again
NextCharge ==
    \/ \E u \in Users, pl \in PLANS : Serial /\ confirm_plan(SeqWorker, u, Confirm(u, pl))
    \/ \E p \in PaymentIds, kind \in IdKinds :
          Serial /\ pay_with_pix_mercado_pago(SeqWorker, p, kind)
    \/ \E p \in PaymentIds, kind \in IdKinds, mp_status \in GatewayStatuses,
          status_code \in {200, 500} :
          Serial /\ pay_with_pix_existing(SeqWorker, p, kind, mp_status, status_code)
    \/ create_payment_write(SeqWorker)
    \/ pay_with_pix_write(SeqWorker)

SpecCharge == Init /\ [][NextCharge]_vars

\* --------------------------------------- the governor, inventory empty
\* the inventory is empty and stays empty: customers order and give their
\* name, the background loop runs its passes, the clock reaches the deadline
\* and the admin toggles sales on the dashboard, one handler after the other
NextSuspend ==
    \/ \E u \in Users, pl \in PLANS : Serial /\ confirm_plan(SeqWorker, u, Confirm(u, pl))
    \/ \E p \in PaymentIds : Serial /\ process_payer_name(p)
    \/ Serial /\ check_login_availability(SeqWorker)
    \/ Serial /\ FiveMinutesPass
    \/ Serial /\ toggle_sales
    \/ create_payment_write(SeqWorker)
    \/ warning_sent_write(SeqWorker)
    \/ waiting_users(SeqWorker)
    \/ expiring_subs(SeqWorker)
    \/ pending_approvals(SeqWorker)
    \/ expired_read(SeqWorker)

SpecSuspend == Init /\ [][NextSuspend]_vars

\* ------------------------------------------------- the purchase menu
\* the customers walk the menu from the list of plans to the payment while
\* the admin switches sales off and on and the pending payments age
NextSales ==
    \/ \E u \in Users : Serial /\ show_plans(SeqWorker, u)
    \/ \E u \in Users, pl \in PLANS : Serial /\ select_plan(SeqWorker, u, pl)
    \/ \E u \in Users :
          Serial /\ chat[u].screen = "confirm" /\ confirm_plan(SeqWorker, u, chat[u].call)
    \/ Serial /\ toggle_sales
    \/ \E p \in PaymentIds : Serial /\ TenMinutesPass(p)
    \/ get_user_pending_payment_write(SeqWorker)
    \/ select_plan_price(SeqWorker)
    \/ create_payment_write(SeqWorker)

SpecSales == Init /\ [][NextSales]_vars

\* ------------------------------------------- concurrent ledger handlers
\* the handlers that write payments.json, on the threads of the telebot
\* worker pool, the background loop and the dashboard, interleaved at every
\* file access; the inventory stays empty
NextLedger ==
    \/ \E w \in Workers, u \in Users, pl \in PLANS : Counted /\ confirm_plan(w, u, Confirm(u, pl))
    \/ \E w \in Workers, p \in PaymentIds : Counted /\ payment_done(w, p)
    \/ \E w \in Workers, p \in PaymentIds : Counted /\ cancel_payment(w, p)
    \/ \E w \in Workers, p \in PaymentIds :
          Counted /\ pay_with_pix_mercado_pago(w, p, "int")
    \/ \E w \in Workers : Counted /\ check_login_availability(w)
    \/ \E w \in Workers, u \in Users : Counted /\ get_user_pending_payment(w, u)
    \/ \E p \in PaymentIds : Counted /\ app_approve_payment(p)
    \/ \E p \in PaymentIds : UNCHANGED ops /\ TenMinutesPass(p)
    \/ \E w \in Workers : create_payment_write(w)
    \/ \E w \in Workers : payment_done_write(w)
    \/ \E w \in Workers : cancel_payment_write(w)
    \/ \E w \in Workers : pay_with_pix_write(w)
    \/ \E w \in Workers : assign_login_to_user(w)
    \/ \E w \in Workers : warning_sent_write(w)
    \/ \E w \in Workers : waiting_users(w)
    \/ \E w \in Workers : expiring_subs(w)
    \/ \E w \in Workers : pending_approvals(w)
    \/ \E w \in Workers : expired_read(w)
    \/ \E w \in Workers : expired_write(w)
    \/ \E w \in Workers : get_user_pending_payment_write(w)

SpecLedger == Init /\ [][NextLedger]_vars

\* ------------------------------------- concurrent calls on approved payments
Min(a, b) == IF a < b THEN a ELSE b

\* n approved, undelivered payments of distinct customers and k credentials
\* in the tier: the state in which the admin handlers, the background loop
\* and check_waiting_users_for_login call assign_login_to_user
InitRace ==
    \E n \in 1..Min(MaxPayments, Len(UserSeq)), k \in 0..MaxLogins,
       pl \in PLANS :
        /\ payments = [p \in PaymentIds |->
                         IF p <= n
                         THEN [create_payment_data(UserSeq[p], pl,
                                   PLAN_TABLE[pl].first_buy_price, "0")
                                 EXCEPT !.status = "approved"]
                         ELSE NoPayment]
        /\ users = [u \in Users |-> NewUser]
        /\ logins = [q \in PLANS |-> IF q = pl THEN [i \in 1..k |-> i] ELSE <<>>]
        /\ th = [w \in Workers |-> Idle]
        /\ nextPaymentId = n + 1
        /\ nextLogin = k + 1
        /\ expiredAge = {}
        /\ expiring = {}
        /\ bot_config = NewConfig
        /\ graceOver = FALSE
        /\ alerted = FALSE
        /\ chat = [u \in Users |-> NewChat]
        /\ consumed = [p \in PaymentIds |-> 0]
        /\ calls = [w \in Workers |-> NoCall]
        /\ ops = 0
        /\ auth_data = [c \in Codes |-> NoCode]
        /\ nextCode = 1
        /\ verified = [c \in Codes |-> 0]

\* a caller enters assign_login_to_user(user_id, plan_type, payment_id)
call_assign_login_to_user(w, p) ==
    /\ th[w].pc = "idle"
    /\ calls[w] = NoCall
    /\ payments[p].status = "approved"
    /\ th' = [th EXCEPT ![w] = [Idle EXCEPT !.pc = "assign_login_to_user",
                                            !.op = "assign_login_to_user",
                                            !.pid = p,
                                            !.user_id = payments[p].user_id,
                                            !.plan_type = payments[p].plan_type]]
    /\ UNCHANGED <<payments, users, logins, nextPaymentId, nextLogin, expiredAge, consumed, calls, expiring, bot_config, graceOver, alerted, chat, auth_data, nextCode, verified>>

\* the customer presses Cancel: cancel_payment_callback -> cancel_payment
call_cancel_payment(w, p) ==
    /\ th[w].pc = "idle"
    /\ calls[w] = NoCall
    /\ Exists(payments, p)
    /\ th' = [th EXCEPT ![w] = [Idle EXCEPT !.pc = "cancel_payment_write",
                                            !.op = "cancel_payment_callback",
                                            !.pid = p, !.snap = payments]]
    /\ UNCHANGED <<payments, users, logins, nextPaymentId, nextLogin, expiredAge, consumed, calls, expiring, bot_config, graceOver, alerted, chat, auth_data, nextCode, verified>>

NextRace ==
    \/ \E w \in Workers, p \in PaymentIds : UNCHANGED ops /\ call_assign_login_to_user(w, p)
    \/ \E w \in Workers, p \in PaymentIds : UNCHANGED ops /\ call_cancel_payment(w, p)
    \/ \E w \in Workers : assign_login_to_user(w)
    \/ \E w \in Workers : assign_save_user(w)
    \/ \E w \in Workers : assign_update_payment(w)
    \/ \E w \in Workers : assign_update_payment_write(w)
    \/ \E w \in Workers : assign_remove_login(w)
    \/ \E w \in Workers : cancel_payment_write(w)

SpecRace == InitRace /\ [][NextRace]_vars

\* ================================================================ claims
Delivered(p) == payments[p].status = "completed" /\ payments[p].login_delivered

InInventory(c) == \E pl \in PLANS : c \in Range(logins[pl])

Holders(c) == {u \in Users : users[u].login_info = c}

PaymentsOf(u, statuses) ==
    {p \in PaymentIds : payments[p].user_id = u /\ payments[p].status \in statuses}

\* C1: once the handlers have returned, every payment that is completed with
\* its login delivered has had exactly one credential removed from the
\* inventory on its behalf
C1_OneCredentialPerDelivery ==
    Quiescent => \A p \in PaymentIds : Delivered(p) => consumed[p] = 1

\* C2: when every worker has made one assign_login_to_user call, each on a
\* different approved payment of a tier that held K credentials, exactly
\* min(N, K) calls returned a login and the tier holds K - min(N, K)
C2_MinOfCallsAndStock ==
    LET K == nextLogin - 1
        N == Cardinality(Workers)
        won == {w \in Workers : calls[w].result = "Success"}
    IN (/\ \A w \in Workers : calls[w].kind = "assign"
        /\ \A v, w \in Workers : v # w => calls[v].pid # calls[w].pid)
       => /\ Cardinality(won) = Min(N, K)
          /\ \A pl \in PLANS : Len(logins[pl]) \in {0, K - Min(N, K)}

\* C3: every credential handed to add_login is either in the inventory and
\* held by no customer, or out of the inventory and held by exactly one
C3_CredentialInOnePlace ==
    \A c \in 1..(nextLogin - 1) :
        \/ InInventory(c) /\ Holders(c) = {}
        \/ ~InInventory(c) /\ Cardinality(Holders(c)) = 1

\* C4: no step changes the status of a payment that is completed, rejected,
\* cancelled or expired
C4_TerminalIsFinal ==
    [][\A p \in PaymentIds :
          payments[p].status \in {"completed", "rejected", "cancelled", "expired"}
             => payments'[p].status = payments[p].status]_vars

\* C5: every change of a payment's status is one of the allowed edges
C5_AllowedEdgesOnly ==
    [][\A p \in PaymentIds :
          payments'[p].status # payments[p].status
             => <<payments[p].status, payments'[p].status>> \in
                   {<<"absent", "pending">>,
                    <<"pending", "pending_approval">>, <<"pending", "approved">>,
                    <<"pending", "cancelled">>, <<"pending", "expired">>,
                    <<"pending_approval", "approved">>,
                    <<"pending_approval", "rejected">>,
                    <<"approved", "completed">>}]_vars

C7_CancelOrAssignWins ==
    \A v, w \in Workers :
        (/\ calls[v].kind = "assign" /\ calls[w].kind = "cancel"
         /\ calls[v].pid = calls[w].pid)
        => LET p == calls[v].pid IN
           /\ ~(payments[p].status = "cancelled" /\ consumed[p] > 0)
           /\ ~(payments[p].status = "completed" /\ calls[w].result = "Success")

\* C8: no write of the ledger drops a payment that is in it, and a payment
\* becomes expired only from pending
C8_NoLostUpdate ==
    [][\A p \in PaymentIds :
          /\ Exists(payments, p) => Exists(payments', p)
          /\ (payments'[p].status = "expired" /\ payments[p].status # "expired")
                => payments[p].status = "pending"]_vars

C11_PassExpiresStale ==
    [][\A w \in Workers :
          /\ (th[w].op = "check_login_availability" /\ th'[w].pc = "idle")
                => stale(payments', expiredAge') = {}
          /\ th[w].pc = "expired_write"
                => \A p \in PaymentIds :
                      (payments'[p].status = "expired" /\ payments[p].status # "expired")
                         => p \in expiredAge]_vars
AssignWrites == {"save_user", "assign_update_payment", "assign_update_payment_write",
                 "remove_login"}

\* C12: a call of assign_login_to_user that found its payment in a status
\* other than approved writes neither the customers, nor the inventory, nor
\* the ledger
C12_NotApprovedChangesNothing ==
    [][\A w \in Workers :
          (th[w].pc \in AssignWrites /\ th[w].found # "approved" /\ th'[w] # th[w])
             => users' = users /\ logins' = logins /\ payments' = payments]_vars
\* C13: a call of assign_login_to_user that finds the list of its tier empty
\* returns at once without a login, and writes neither the ledger, nor the
\* customers, nor the inventory
C13_OutOfStockChangesNothing ==
    [][\A w \in Workers :
          (/\ th[w].pc = "assign_login_to_user"
           /\ logins[th[w].plan_type] = <<>>
           /\ th'[w] # th[w])
          => /\ payments' = payments /\ users' = users /\ logins' = logins
             /\ th'[w].pc \notin AssignWrites
             /\ th[w].op = "assign_login_to_user"
                   => calls'[w] = [kind |-> "assign", pid |-> th[w].pid,
                                   result |-> "OutOfStock"]]_vars

\* C13 witness: a call returned without a login and its payment is still
\* approved and undelivered, with the tier empty
C13_StillWaiting ==
    \E w \in Workers :
        /\ calls[w].kind = "assign" /\ calls[w].result = "OutOfStock"
        /\ payments[calls[w].pid].status = "approved"
        /\ ~payments[calls[w].pid].login_delivered
        /\ users[payments[calls[w].pid].user_id] = NewUser
        /\ \A pl \in PLANS : logins[pl] = <<>>
Waiting(p) == payments[p].status = "approved" /\ ~payments[p].login_delivered

Stock(p) == IF Exists(payments, p) THEN logins[payments[p].plan_type] ELSE <<>>

\* C14: an approved, undelivered payment whose tier holds a credential is
\* eventually completed with its login delivered unless the tier runs empty
\* first, and until it is delivered it stays approved and undelivered
C14_WaitingIsEventuallyServed ==
    /\ \A p \in PaymentIds :
          (Waiting(p) /\ Stock(p) # <<>>) ~> (Delivered(p) \/ Stock(p) = <<>>)
    /\ [][\A p \in PaymentIds : Waiting(p) => Waiting(p)' \/ Delivered(p)']_vars
\* the plans a customer's record holds: tier and login
Plans(user) ==
    IF user.login_info = 0 THEN {} ELSE {<<user.plan_type, user.login_info>>}

\* C15: the save_user of assign_login_to_user adds the plan of this delivery
\* to the plans the customer already holds and clears is_first_buy, and its
\* update_payment leaves the payment completed with login_delivered
C15_AssignAppendsPlan ==
    [][\A w \in Workers :
          /\ (th[w].pc = "save_user" /\ th'[w] # th[w])
                => LET u == th[w].user_id IN
                   /\ Plans(users'[u]) =
                         Plans(users[u]) \cup {<<th[w].plan_type, th[w].login>>}
                   /\ ~users'[u].is_first_buy
          /\ (th[w].pc = "assign_update_payment_write" /\ th'[w] # th[w])
                => /\ payments'[th[w].pid].status = "completed"
                   /\ payments'[th[w].pid].login_delivered]_vars
\* C16: the coupon's use count of every customer is at most
\* max_uses_per_user and its total use count is at most max_uses
C16_CouponLimits ==
    /\ bot_config.uses <= max_uses
    /\ \A u \in Users : bot_config.usage_history[u] <= max_uses_per_user

\* C17: the coupon has been counted as used at most once for each payment
\* that carries it and has been delivered
C17_OneUsePerCheckout ==
    bot_config.uses <=
        Cardinality({p \in PaymentIds :
                        payments[p].call.coupon_code = COUPON /\ Delivered(p)})

\* C18: no step lowers the coupon's total use count or the use count of a
\* customer
C18_CouponCountsNeverDecrease ==
    [][/\ bot_config'.uses >= bot_config.uses
       /\ \A u \in Users :
             bot_config'.usage_history[u] >= bot_config.usage_history[u]]_vars

\* the three files a handler can change
Files == <<payments, users, logins>>

C21_ApprovalDeliversFromStock ==
    Quiescent =>
        \A p \in PaymentIds :
            (payments[p].status = "approved" /\ ~payments[p].login_delivered)
               => logins[payments[p].plan_type] = <<>>

\* C22: a pass of the background loop suspends sales only when the low-stock
\* alert was sent since the inventory last received a login, and the clock
\* has reached the deadline that alert set
C22_SuspendsAfterItsOwnAlert ==
    [][\A w \in Workers :
          (/\ th[w].pc = "idle"
           /\ th'[w].op = "check_login_availability"
           /\ bot_config.sales_enabled
           /\ ~bot_config'.sales_enabled)
             => alerted /\ graceOver]_vars

\* the governor is Enabled: sales are on, no deadline, no alert flag
GovernorEnabled(config) ==
    /\ config.sales_enabled
    /\ config.sales_suspended_time = None
    /\ ~config.warning_sent

\* C23: when a handler that added a login returns, from the dashboard route
\* or from the bot command, sales are enabled and the deadline and the alert
\* flag are cleared
C23_EnqueueEnablesSales ==
    [][/\ (Quiescent' /\ \E pl \in PLANS : Len(logins'[pl]) > Len(logins[pl]))
            => GovernorEnabled(bot_config')
       /\ \A w \in Workers :
            (th[w].op = "add_login_command" /\ th'[w].pc = "idle")
               => GovernorEnabled(bot_config')]_vars

\* C24: a payment is created only while sales are enabled
C24_NoPaymentWhileSuspended ==
    [][\A p \in PaymentIds :
          (~Exists(payments, p) /\ Exists(payments', p))
             => bot_config.sales_enabled]_vars

\* the price a confirmation message shows when select_plan has built it
Shown(w) == chat'[th[w].user_id].call.price

\* select_plan builds the confirmation message of worker w's customer
Prices(w) == th[w].pc = "select_plan_price" /\ th'[w].pc = "idle"

\* C25: the price shown for a tier is the first-buy price when the
\* customer's flag is set and the tier allows the discount, the regular
\* price otherwise, less the largest percentage among the seasonal discounts
\* that are active and apply to the tier
C25_LargestSeasonalDiscount ==
    [][\A w \in Workers :
          Prices(w) =>
             LET user == users[th[w].user_id]
                 plan == PLAN_TABLE[th[w].plan_type]
                 base == IF user.is_first_buy /\ plan.first_buy_discount
                         THEN plan.first_buy_price ELSE plan.regular_price
                 largest == largest_seasonal_discount_info(bot_config, th[w].plan_type)
             IN Shown(w) = IF largest = <<>> THEN base
                           ELSE (base * (100 - largest[1])) \div 100]_vars

\* the customer has been delivered a credential for a payment
Fulfilled(u) ==
    \E p \in PaymentIds : payments[p].user_id = u /\ payments[p].login_delivered

\* the percentages of the seasonal discounts that are active and apply to
\* the tier
ActivePercents(pl) ==
    {bot_config.seasonal_discounts[i].discount_percent :
        i \in {j \in DOMAIN bot_config.seasonal_discounts :
                  /\ ~bot_config.seasonal_discounts[j].expired
                  /\ pl \in bot_config.seasonal_discounts[j].applicable_plans}}

\* a base price less any one of the active seasonal discounts of the tier
Seasonal(base, pl) ==
    IF ActivePercents(pl) = {} THEN {base}
    ELSE {(base * (100 - d)) \div 100 : d \in ActivePercents(pl)}

\* C26 as stated: for a tier with a first-buy discount, the price shown
\* before the customer's first fulfilment is the first-buy price, and after
\* it the regular price less an active seasonal discount
C26_FirstBuyPriceAsStated ==
    [][\A w \in Workers :
          (Prices(w) /\ PLAN_TABLE[th[w].plan_type].first_buy_discount) =>
             IF ~Fulfilled(th[w].user_id)
             THEN Shown(w) = PLAN_TABLE[th[w].plan_type].first_buy_price
             ELSE Shown(w) \in Seasonal(PLAN_TABLE[th[w].plan_type].regular_price,
                                        th[w].plan_type)]_vars

\* C26: for a tier with a first-buy discount, the price shown before the
\* customer's first fulfilment is the first-buy price, and after it the
\* regular price, in both cases less an active seasonal discount of the tier
\* when there is one
C26_FirstBuyThenRegular ==
    [][\A w \in Workers :
          (Prices(w) /\ PLAN_TABLE[th[w].plan_type].first_buy_discount) =>
             IF ~Fulfilled(th[w].user_id)
             THEN Shown(w) \in Seasonal(PLAN_TABLE[th[w].plan_type].first_buy_price,
                                        th[w].plan_type)
             ELSE Shown(w) \in Seasonal(PLAN_TABLE[th[w].plan_type].regular_price,
                                        th[w].plan_type)]_vars

\* a customer who was delivered a credential is shown the regular price of
\* the tier less the seasonal discount that is active
C26_RegularAfterFulfilment ==
    \E u \in Users :
        /\ Fulfilled(u)
        /\ ~users[u].is_first_buy
        /\ chat[u].screen = "confirm"
        /\ ActivePercents(chat[u].call.plan_type) # {}
        /\ chat[u].call.price \in Seasonal(PLAN_TABLE[chat[u].call.plan_type].regular_price,
                                           chat[u].call.plan_type)

\* C27: at most one payment of a customer is made at a price the referral
\* discount has reduced, and no payment is made at a price that both the
\* referral discount and the coupon have reduced
C27_ReferralOnceAndNotWithCoupon ==
    /\ \A u \in Users :
          Cardinality({p \in PaymentIds :
                          /\ payments[p].user_id = u
                          /\ payments[p].call.discount_applied}) <= 1
    /\ \A p \in PaymentIds :
          ~(payments[p].call.discount_applied /\ payments[p].call.coupon_code = COUPON)

\* C28: a referrer's count of successful referrals is at most the number of
\* the customers they referred who have been delivered a credential
C28_OncePerReferredCustomer ==
    \A r \in Users :
        users[r].successful_referrals <=
            Cardinality({u \in Users : users[u].referred_by = r /\ Fulfilled(u)})

\* C29: when a pass sends the near-expiry notification of a plan, the plan
\* is marked notified, so that the next pass does not find it among the
\* plans to notify. The plan notified first is the first, in the order of the
\* users file, of those get_expiring_subscriptions returns
C29_NotifiedOnce ==
    [][\A w \in Workers :
          (/\ th[w].pc = "expiring_subs"
           /\ th'[w].pc # "expiring_subs"
           /\ expiring # {})
             => LET first_expiring ==
                        UserSeq[CHOOSE i \in DOMAIN UserSeq :
                                   /\ UserSeq[i] \in expiring
                                   /\ \A j \in 1..(i - 1) : UserSeq[j] \notin expiring]
                IN first_expiring \notin expiring']_vars

\* C30: when the lookup of a customer's pending payment expires it, the
\* payments of the other customers are left as they are
C30_OtherCustomersUnchanged ==
    [][\A w \in Workers :
          (th[w].pc = "get_user_pending_payment_write" /\ th'[w] # th[w]) =>
             \A p \in PaymentIds :
                (Exists(payments, p)
                    /\ payments[p].user_id # th[w].snap[th[w].pid].user_id)
                   => payments'[p] = payments[p]]_vars

\* C31: a pass of the background loop that has started ends only out of its
\* last stage, the sweep of the stale pending payments, whatever happened to
\* the waiting payments and the expiring plans it went through before
C31_PassReachesItsLastStage ==
    [][\A w \in Workers :
          (/\ th[w].op = "check_login_availability"
           /\ th[w].pc # "idle"
           /\ th'[w].pc = "idle")
             => th[w].pc \in {"expired_read", "expired_write"}]_vars

\* the reasons for which the coupon must be refused to a customer for a tier
\* and an amount
Reasons(u, pl, amount) ==
    (IF ~bot_config.coupon_exists THEN {"not found"} ELSE {})
    \cup (IF bot_config.coupon_expired THEN {"expired"} ELSE {})
    \cup (IF bot_config.uses >= max_uses THEN {"max_uses"} ELSE {})
    \cup (IF bot_config.usage_history[u] >= max_uses_per_user
          THEN {"max_uses_per_user"} ELSE {})
    \cup (IF amount < bot_config.min_purchase THEN {"min_purchase"} ELSE {})
    \cup (IF bot_config.applicable_plans \cap {"all", pl} = {}
          THEN {"applicable_plans"} ELSE {})
    \cup (IF users[u].is_first_buy THEN {"first purchase"} ELSE {})

\* the handler of worker w validates the coupon and accepts it
Accepts(w) == th[w].pc = "idle" /\ th'[w].op = "process_coupon_code"

\* C32: the coupon is accepted only when there is no reason to refuse it and
\* refused only when there is one, the answer then names one of the reasons
\* there are, and the validation writes neither the configuration nor the
\* users nor the payments
C32_ValidIffNoReason ==
    [][/\ \A w \in Workers :
            Accepts(w) =>
               /\ Reasons(th'[w].user_id, th'[w].data.plan_type,
                          th'[w].data.price) = {}
               /\ th'[w].coupon_result.ok
               /\ <<bot_config, users, payments>>' = <<bot_config, users, payments>>
       /\ \A u \in Users :
            (chat'[u] # chat[u] /\ chat'[u].screen = "coupon refused") =>
               /\ chat'[u].msg \in Reasons(u, chat'[u].call.plan_type,
                                           chat'[u].call.price)
               /\ <<bot_config, users, payments>>' = <<bot_config, users, payments>>]_vars

\* one customer holds the Confirm button of an accepted coupon and another
\* was refused it
C32_AcceptedAndRefused ==
    \E u, v \in Users :
        /\ chat[u].screen = "confirm"
        /\ chat[u].call.coupon_code = COUPON
        /\ chat[v].screen = "coupon refused"
        /\ chat[v].msg = "first purchase"

\* C33: the final amount of an accepted coupon is the amount less the
\* discount and is more than zero
C33_FinalAmountPositive ==
    [][\A w \in Workers :
          Accepts(w) =>
             /\ th'[w].coupon_result.final_amount
                   = th'[w].data.price - th'[w].coupon_result.discount
             /\ th'[w].coupon_result.final_amount > 0]_vars

\* a fixed coupon worth at least the amount was accepted, and the Confirm
\* button carries what is left to pay
C33_FixedDiscountTakesAll ==
    \E u \in Users :
        /\ chat[u].screen = "confirm"
        /\ chat[u].call.coupon_code = COUPON
        /\ bot_config.discount_type = "fixed"
        /\ bot_config.discount_value >= PLAN_TABLE[chat[u].call.plan_type].regular_price
        /\ chat[u].call.price = 1

\* C34: once sales are disabled they are enabled again only by the admin's
\* toggle, which no handler is running during, or by the command that adds a
\* login
C34_DisabledUntilResumed ==
    [][(~bot_config.sales_enabled /\ bot_config'.sales_enabled)
          => \/ th' = th
             \/ \E w \in Workers : th[w].pc = "add_login_resume"]_vars

\* C35: the stages of a background pass that follow its decision on the
\* warning and the suspension leave the sales state as they find it, so a
\* toggle made while the pass runs is never undone by the pass
C35_PassKeepsToggledState ==
    [][\A w \in Workers :
          (/\ th[w].op = "check_login_availability"
           /\ th[w].pc # "idle"
           /\ th'[w] # th[w])
             => bot_config'.sales_enabled = bot_config.sales_enabled]_vars

\* C36: a charge that is still payable at the gateway is replaced by a new
\* charge only after its cancellation was attempted
C36_ReplacedOnlyAfterCancel ==
    [][\A w \in Workers :
          (/\ th[w].pc = "pay_with_pix_write"
           /\ payments[th[w].pid].mp_payment_id # NoRef
           /\ payments'[th[w].pid].mp_payment_id # payments[th[w].pid].mp_payment_id
           /\ th[w].payment_status = "pending")
             => th[w].cancel_attempted]_vars

\* C37: the pending-approvals query returns the payments whose status is
\* pending_approval, all of them and no other
C37_QueryReturnsPendingApproval ==
    get_pending_approvals(payments) =
        {p \in PaymentIds : Exists(payments, p) /\ payments[p].status = "pending_approval"}

\* C38: a payment is marked as delivered only when a credential was removed
\* from the inventory on its behalf and its customer holds a credential
C38_DeliveredMeansCredentialTaken ==
    Quiescent =>
       \A p \in PaymentIds :
          (Exists(payments, p) /\ payments[p].login_delivered)
             => /\ consumed[p] >= 1
                /\ users[payments[p].user_id].login_info # 0

\* C39: verify_access_code returns True at most once for each code
C39_SingleUse ==
    \A c \in Codes : verified[c] <= 1

====
